---- MODULE Spec2Model ----
(***************************************************************************)
(* Model of the chat response normalizer (app/services/chatbot_service.py, *)
(* app/services/chatbot_gemini_handler.py), the place search tools         *)
(* (app/services/search_service.py) and the auto scheduler                 *)
(* (app/services/auto_schedule.py).                                        *)
(*                                                                         *)
(* Times are minutes since midnight.  JSON values are tagged records:      *)
(* the field k names the JSON type and one more field carries the value.  *)
(*                                                                         *)
(* chatbot_service.py carries unresolved merge markers.  The lines outside *)
(* the markers and the HEAD side hold the tool-calling handler; the other  *)
(* side (revision 10e020d) holds simple_message, the normalizing free-text *)
(* path and _normalize_actions.  For the one hunk where both sides are     *)
(* alternative bodies of the same step (the free-text path, lines 176-232) *)
(* the variable merge says which side the build took; it is settled when   *)
(* the handler reaches the hunk, the steps before it being the same on     *)
(* both sides.                                                             *)
(***************************************************************************)
EXTENDS Integers, Sequences, FiniteSets, TLC

VARIABLES
    merge,        \* side taken for the free-text hunk: "HEAD" or "theirs",
                  \* "unread" until the handler reaches it
    handler,      \* which handle_java_chatbot_request runs: "service" or "gemini_handler"
    gemini_model, \* TRUE when the model object exists, FALSE when it is None
    planContext,  \* the request's PlanContext (TimeTables, TimeTablePlaceBlocks)
    cpc,          \* position of the chat handler
    parts,        \* function_call parts of the model response
    idx,          \* next part to process
    actions,      \* ActionData accumulated by the tool-call path
    produced,     \* every block a search tool returned so far, in order
    rawText,      \* the model text the free-text path read (Unread before)
    npc,          \* position of a direct call of _normalize_actions
    nArg,         \* argument of _normalize_actions
    normalized,   \* result of _normalize_actions
    reply,        \* ChatBotActionResponse returned, NoReply, or Raised
    log,          \* what the handler did: generate calls, searches, text reads
    spc,          \* position of create_auto_schedule
    sIn,          \* arguments of create_auto_schedule and the search collaborator
    day,          \* loop variable of create_auto_schedule
    accommodation_place, \* lodging place chosen before the loop (NoPlace = None)
    time_tables,  \* TimeTable create actions
    place_blocks_actions, \* PlaceBlock create actions
    sLog,         \* searches the scheduler issued
    upc,          \* position of a direct call of a utility function
    uIn,          \* the function called and its arguments
    uOut,         \* what the call returned, or that it raised
    food_cache,   \* price_service._food_cache
    accom_cache,  \* price_service._accom_cache
    summary_cache, \* price_service._summary_cache
    served,       \* predict_price_service requests answered so far
    price_call,   \* the last price request and what the enrichment collaborator did
    price_response \* the PricePredictionResponse of the last request

chatVars == <<merge, handler, gemini_model, cpc, parts, idx, actions, produced,
              rawText, reply, log>>
normVars == <<npc, nArg, normalized>>
schedVars == <<spc, sIn, day, accommodation_place, time_tables,
               place_blocks_actions, sLog>>
utilVars == <<upc, uIn, uOut>>
priceVars == <<food_cache, accom_cache, summary_cache, served, price_call, price_response>>
vars == <<chatVars, normVars, planContext, schedVars, utilVars, priceVars>>

-----------------------------------------------------------------------------
(* Bounds *)

MaxEntries == 2      \* longest raw actions array of a model reply
MaxParts == 2        \* most function_call parts of one model response
MaxQueries == 2      \* most queries of one search_multiple_place_blocks call
MaxExisting == 2     \* most existing blocks of a PlanContext
MaxDays == 3         \* longest trip

-----------------------------------------------------------------------------
(* JSON values *)

Null == [k |-> "null"]
Bool(b) == [k |-> "bool", b |-> b]
Num(n) == [k |-> "num", n |-> n]
Str(s) == [k |-> "str", s |-> s]
List(l) == [k |-> "list", l |-> l]
Map(m) == [k |-> "map", m |-> m]
EmptyDict == [key \in {} |-> Null]

\* dict.get(key): None when the key is missing
Get(m, key) == IF key \in DOMAIN m THEN m[key] ELSE Null

\* d[key] = value
Put(m, key, value) == [x \in DOMAIN m \cup {key} |-> IF x = key THEN value ELSE m[x]]

\* del d[key] for every key of a set
Del(m, keys) == [x \in DOMAIN m \ keys |-> m[x]]

\* key.startswith('target') over the keys the model uses
StartsWithTarget(key) == key \in {"target", "targetName", "targetId", "targetDate"}

-----------------------------------------------------------------------------
(* JSON-repair parsing *)

Fail == [k |-> "fail"]

\* The strings of the model: what json.loads makes of each
JsonLoads(s) ==
    CASE s = "{\"placeName\":\"A\"}" -> Map([placeName |-> Str("A")])
      [] s = "{\"placeName\": \"A\"}" -> Map([placeName |-> Str("A")])
      [] s = "5" -> Num(5)
      [] s = "\"hello\"" -> Str("hello")
      [] OTHER -> Fail

\* strip() and removal of one layer of enclosing quotes
StripQuotes(s) ==
    CASE s = " '\"placeName\":\"A\"' " -> "\"placeName\":\"A\""
      [] s = "'hello'" -> "hello"
      [] OTHER -> s

LooksLikeObject(s) ==
    s \in {"{\"placeName\":\"A\"}", "{\"placeName\": \"A\"}", "{hello}", "{placeName: A}"}

WrapBraces(s) ==
    CASE s = "\"placeName\":\"A\"" -> "{\"placeName\":\"A\"}"
      [] s = "hello" -> "{hello}"
      [] s = "create" -> "{create}"
      [] OTHER -> "{?}"

\* json.dumps of the mappings the parser can return
JsonDumps(v) ==
    IF v = Map([placeName |-> Str("A")]) THEN "{\"placeName\": \"A\"}" ELSE "?"

\* A repair that hands back the string it retried when the retry fails
RepairKeepsRetried(s) ==
    IF JsonLoads(s) # Fail
    THEN JsonLoads(s)
    ELSE LET t == StripQuotes(s)
             u == IF LooksLikeObject(t) THEN t ELSE WrapBraces(t)
         IN  IF JsonLoads(u) # Fail THEN JsonLoads(u) ELSE Str(u)

robust_json_parse(s) ==
    IF JsonLoads(s) # Fail
    THEN JsonLoads(s)
    ELSE LET t == StripQuotes(s)
             u == IF LooksLikeObject(t) THEN t ELSE WrapBraces(t)
         IN  IF JsonLoads(u) # Fail THEN JsonLoads(u) ELSE Str(s)

Strings == {"create", "hello", "'hello'", "\"hello\"", "5",
            "{\"placeName\":\"A\"}", "\"placeName\":\"A\"",
            " '\"placeName\":\"A\"' ", "{placeName: A}"}

-----------------------------------------------------------------------------
(* _normalize_actions *)

\* lines 302-321: the type-specific defence on target
TargetByTypeNoNumber(d, target_value) ==
    CASE target_value.k = "list" ->
            IF target_value.l # <<>>
            THEN LET first == target_value.l[1]
                 IN  CASE first.k = "map" -> Put(d, "target", first)
                       [] first.k = "str" ->
                            LET parsed == robust_json_parse(first.s)
                            IN  Put(d, "target",
                                    IF parsed.k = "map" THEN parsed
                                    ELSE Map([raw_string_data |-> parsed]))
                       [] OTHER -> Put(d, "target", Map([list_data |-> target_value]))
            ELSE Put(d, "target", Map(EmptyDict))
      [] target_value.k = "str" ->
            LET parsed_target == robust_json_parse(target_value.s)
            IN  Put(d, "target",
                    IF parsed_target.k = "map" THEN parsed_target
                    ELSE Map([raw_string_data |-> parsed_target]))
      [] target_value.k = "null" -> Put(d, "target", Map(EmptyDict))
      [] OTHER -> d

TargetByType(d, target_value) ==
    CASE target_value.k = "list" ->
            IF target_value.l # <<>>
            THEN LET first == target_value.l[1]
                 IN  CASE first.k = "map" -> Put(d, "target", first)
                       [] first.k = "str" ->
                            LET parsed == robust_json_parse(first.s)
                            IN  Put(d, "target",
                                    IF parsed.k = "map" THEN parsed
                                    ELSE Map([raw_string_data |-> parsed]))
                       [] OTHER -> Put(d, "target", Map([list_data |-> target_value]))
            ELSE Put(d, "target", Map(EmptyDict))
      [] target_value.k = "str" ->
            LET parsed_target == robust_json_parse(target_value.s)
            IN  Put(d, "target",
                    IF parsed_target.k = "map" THEN parsed_target
                    ELSE Map([raw_string_data |-> parsed_target]))
      \* isinstance(x, (int, float)) is true of a bool as well
      [] target_value.k \in {"num", "bool"} -> Put(d, "target", Map([value |-> target_value]))
      [] target_value.k = "null" -> Put(d, "target", Map(EmptyDict))
      [] OTHER -> d

\* lines 284-300: rebuild a missing target from target-prefixed siblings
RecoverTarget(d) ==
    IF Get(d, "target").k = "null" /\ "targetName" \in DOMAIN d
    THEN LET keys_to_remove == {key \in DOMAIN d :
                                   StartsWithTarget(key) /\ key \notin {"target", "targetName"}}
             target_payload == [key \in keys_to_remove |-> d[key]]
         IN  IF keys_to_remove # {}
             THEN Put(Del(d, keys_to_remove), "target", Map(target_payload))
             ELSE Put(d, "target", Map(EmptyDict))
    ELSE d

\* lines 272-323: one entry of the loop; <<>> when the entry is skipped
NormalizeEntry(entry0) ==
    LET entry == IF entry0.k = "list"
                 THEN (IF entry0.l # <<>> THEN entry0.l[1] ELSE Null)
                 ELSE entry0
    IN  IF entry0.k = "null" \/ entry.k # "map"
        THEN <<>>
        ELSE LET d == RecoverTarget(entry.m)
             IN  <<Map(TargetByType(d, Get(d, "target")))>>

RECURSIVE NormalizeList(_)
NormalizeList(l) ==
    IF l = <<>> THEN <<>> ELSE NormalizeEntry(Head(l)) \o NormalizeList(Tail(l))

_normalize_actions(raw_actions) ==
    IF raw_actions.k = "null"
    THEN <<>>
    ELSE NormalizeList(IF raw_actions.k = "list" THEN raw_actions.l ELSE <<raw_actions>>)

-----------------------------------------------------------------------------
(* Time utilities and place search: app/services/search_service.py *)

DAY_START == 540     \* time(9, 0, 0)
DAY_END == 1200      \* time(20, 0, 0)
FallbackStart == 1140   \* "19:00:00"
FallbackEnd == 1230     \* "20:30:00"
DefaultDuration == 90   \* duration_minutes: int = 90
MinutesPerDay == 24 * 60

MaxResults == 3      \* most results the search collaborator returns for a query

\* An encoded wall-clock time: enc is "hms" for "HH:MM:SS", "hm" for "HH:MM",
\* "list" for [H, M(, S(, ns))], "empty" for None, "" or []; t is the minute.
Time(enc, t) == [enc |-> enc, t |-> t]

\* _parse_time raises ValueError exactly on the values it cannot read
ParseTimeRaises(tv) == tv.enc \notin {"hms", "hm", "list"}
_parse_time(tv) == tv.t

\* datetime.time() of a datetime that may have passed midnight
TimeOfDay(m) == m % MinutesPerDay

parse_blocks_from_plan(plan) == plan.TimeTablePlaceBlocks

\* list.sort(key=start): a stable insertion sort on the start minute
RECURSIVE InsertByStart(_, _)
InsertByStart(u, sorted) ==
    IF sorted = <<>> THEN <<u>>
    ELSE IF u[1] < Head(sorted)[1] THEN <<u>> \o sorted
    ELSE <<Head(sorted)>> \o InsertByStart(u, Tail(sorted))

RECURSIVE SortByStart(_)
SortByStart(used) ==
    IF used = <<>> THEN <<>>
    ELSE InsertByStart(used[Len(used)], SortByStart(SubSeq(used, 1, Len(used) - 1)))

SameTable(blocks, timeTableId) ==
    SelectSeq(blocks, LAMBDA b : b.timeTableId = timeTableId)

RECURSIVE UsedOf(_)
UsedOf(blocks) ==
    IF blocks = <<>> THEN <<>>
    ELSE <<<<_parse_time(Head(blocks).blockStartTime),
             _parse_time(Head(blocks).blockEndTime)>>>> \o UsedOf(Tail(blocks))

\* lines 187-202: the scan over the sorted intervals
RECURSIVE ScanUsed(_, _, _)
ScanUsed(used, candidate, duration) ==
    IF used = <<>>
    THEN IF candidate + duration <= DAY_END
         THEN <<candidate, candidate + duration>>
         ELSE <<FallbackStart, FallbackEnd>>
    ELSE IF candidate + duration <= Head(used)[1]
         THEN <<candidate, candidate + duration>>
         ELSE ScanUsed(Tail(used),
                       IF candidate < Head(used)[2] THEN Head(used)[2] ELSE candidate,
                       duration)

FindRaises(existing_blocks, timeTableId) ==
    \E i \in 1..Len(existing_blocks) :
        /\ existing_blocks[i].timeTableId = timeTableId
        /\ \/ ParseTimeRaises(existing_blocks[i].blockStartTime)
           \/ ParseTimeRaises(existing_blocks[i].blockEndTime)

find_non_overlapping_time(existing_blocks, timeTableId, duration_minutes) ==
    ScanUsed(SortByStart(UsedOf(SameTable(existing_blocks, timeTableId))),
             DAY_START, duration_minutes)

\* A query is a sequence of words.  The words stand for the Korean ones:
\* "hotel" = 호텔, "matjip" = 맛집, "gwangwangji" = 관광지, "gogi" = 고기,
\* "hoe" = 회, "gukhoe" = 국회 (a word that ends in 회).
LodgingWords == {"hotel"}
DiningWords == {"matjip"}
EndsInHoe == {"hoe", "gukhoe"}

detect_place_category(q) ==
    IF \E i \in 1..Len(q) : q[i] \in LodgingWords THEN 1
    ELSE IF \/ \E i \in 1..Len(q) : q[i] \in DiningWords
            \/ \E i \in 1..(Len(q) - 1) : q[i] \in EndsInHoe   \* "회 " needs a following word
         THEN 2
    ELSE 0

\* call_google_places against a collaborator that has n results for the
\* query: None when n = 0, else the result at the clamped index
NoPlace == [placeName |-> <<>>, placeId |-> -1]

\* A search that ignores result_index
FirstResultOnly(query, result_index, n) ==
    IF n = 0 THEN NoPlace ELSE [placeName |-> query, placeId |-> 0]

call_google_places(query, result_index, n) ==
    IF n = 0 THEN NoPlace
    ELSE LET i == IF result_index >= n THEN n - 1 ELSE result_index
         IN  [placeName |-> query, placeId |-> i]

SearchBlock(place, start, end, category, timeTableId) ==
    [blockId |-> -1, placeName |-> place.placeName, placeId |-> place.placeId,
     blockStartTime |-> Time("hms", start), blockEndTime |-> Time("hms", end),
     placeCategoryId |-> category, timeTableId |-> timeTableId]

\* lines 294-351.  n: results the collaborator has for the query
search_and_create_place_block(query, timeTableId, plan, duration_minutes, n) ==
    LET existing_blocks == parse_blocks_from_plan(plan)
        google_place == call_google_places(query, 0, n)
    IN  IF google_place = NoPlace THEN [t |-> "error"]
        ELSE IF FindRaises(existing_blocks, timeTableId) THEN [t |-> "raise"]
        ELSE LET se == find_non_overlapping_time(existing_blocks, timeTableId, duration_minutes)
             IN  [t |-> "block",
                  block |-> SearchBlock(google_place, se[1], se[2],
                                        detect_place_category(query), timeTableId)]

\* query_count.get(q, 0) at position i: earlier occurrences of the same query
QueryCount(queries, i) == Cardinality({j \in 1..(i - 1) : queries[j] = queries[i]})

\* lines 394-433: the loop from query i on, current_start_dt = cur
RECURSIVE PlaceQueries(_, _, _, _, _, _)
PlaceQueries(queries, i, cur, timeTableId, duration, ns) ==
    IF i > Len(queries) THEN <<>>
    ELSE LET google_place == call_google_places(queries[i], QueryCount(queries, i), ns[i])
             end_dt == cur + duration
         IN  IF google_place = NoPlace
             THEN PlaceQueries(queries, i + 1, cur, timeTableId, duration, ns)
             ELSE IF TimeOfDay(end_dt) > DAY_END
             THEN <<>>
             ELSE <<SearchBlock(google_place, TimeOfDay(cur), TimeOfDay(end_dt),
                                detect_place_category(queries[i]), timeTableId)>>
                  \o PlaceQueries(queries, i + 1, end_dt, timeTableId, duration, ns)

\* lines 354-435.  ns[i]: results the collaborator has for queries[i]
search_multiple_place_blocks(queries, timeTableId, plan, duration_minutes, ns) ==
    LET existing_blocks == parse_blocks_from_plan(plan)
    IN  IF FindRaises(existing_blocks, timeTableId) THEN [t |-> "raise"]
        ELSE LET se == find_non_overlapping_time(existing_blocks, timeTableId, duration_minutes)
             IN  [t |-> "blocks",
                  blocks |-> PlaceQueries(queries, 1, se[1], timeTableId, duration_minutes, ns)]

-----------------------------------------------------------------------------
(* PlanContext values *)

StartDates == {10}   \* start_date of the trip, as a day number

\* A date as the PlanContext carries it: enc is "iso" for "YYYY-MM-DD",
\* "list" for [Y, M, D], "none" when the block has no date
Date(enc, d) == [enc |-> enc, d |-> d]

ExistingBlock(tt, date, s, e, name) ==
    [timeTableId |-> [float |-> FALSE, v |-> tt], date |-> date,
     blockStartTime |-> s, blockEndTime |-> e, placeName |-> <<name>>, placeId |-> 0]

ExistingBlocks ==
    { ExistingBlock(7, Date("iso", 10), Time("hms", 570), Time("hms", 615), "museum"),
      ExistingBlock(7, Date("iso", 10), Time("hms", 1290), Time("hms", 1350), "inn"),
      ExistingBlock(8, Date("list", 11), Time("hms", 660), Time("hms", 720), "park"),
      ExistingBlock(7, Date("iso", 10), Time("hms", 540), Time("hms", 1140), "tour"),
      ExistingBlock(7, Date("iso", 10), Time("list", 750), Time("list", 780), "cafe"),
      ExistingBlock(7, Date("none", 10), Time("empty", 0), Time("hms", 600), "draft") }

SeqsUpTo(S, n) == UNION {[1..m -> S] : m \in 0..n}

TimeTableChoices ==
    { <<>>, <<[timeTableId |-> 7, date |-> Date("iso", 10)]>>,
      <<[timeTableId |-> 7, date |-> Date("iso", 10)],
        [timeTableId |-> 8, date |-> Date("iso", 11)]>> }

Plans ==
    [TravelName : {"Seoul"},
     TimeTables : TimeTableChoices,
     TimeTablePlaceBlocks : SeqsUpTo(ExistingBlocks, MaxExisting)]

\* A callee that appends the blocks it made to the list it read
PlanExtended(plan, blocks) ==
    [plan EXCEPT !.TimeTablePlaceBlocks = @ \o blocks]

\* The PlanContext after a call that made blocks. parse_blocks_from_plan
\* (search_service.py line 29) hands out the plan's own list, the callers
\* only read it: the intervals, the blocks of a date and the new blocks go
\* to lists of their own (search_service.py lines 173-182, 376, 432;
\* auto_schedule.py lines 28-42, 109-110, 197)
PlanAfter(plan, blocks) == plan

\* The chat requests: no TimeTables hint, blocks of timetable 7. The search
\* tools sort the blocks they read (search_service.py line 182), so the
\* requests list them in one order, by end time.
ChatPlans ==
    {p \in Plans :
        /\ p.TimeTables = <<>>
        /\ \A i \in 1..Len(p.TimeTablePlaceBlocks) :
              p.TimeTablePlaceBlocks[i].timeTableId.v = 7
        /\ \A i \in 1..(Len(p.TimeTablePlaceBlocks) - 1) :
              p.TimeTablePlaceBlocks[i].blockEndTime.t
                  < p.TimeTablePlaceBlocks[i + 1].blockEndTime.t}

-----------------------------------------------------------------------------
(* Replies: app/models.py ChatBotActionResponse, ActionData *)

NoReply == [t |-> "none"]
Raised == [t |-> "raised"]       \* an exception left the handler
Reply(msg, hasAction, acts) ==
    [t |-> "reply", userMessage |-> msg, hasAction |-> hasAction, actions |-> acts]

Msg(kind) == [kind |-> kind]

\* chatbot_service.py lines 22-23
simple_message(msg) == Reply(msg, FALSE, <<>>)

\* lines 104-108 and 132-136: the fixed apology
NotFoundKeepsActions == Reply(Msg("place_not_found"), actions # <<>>, actions)

NotFoundReply == Reply(Msg("place_not_found"), FALSE, <<>>)

ActionData(action, targetName, target) ==
    [action |-> action, targetName |-> targetName, target |-> target]

PlaceNames(acts) == [i \in 1..Len(acts) |-> acts[i].target.placeName]

\* lines 148-160
ToolReplyNoFlag(acts) ==
    Reply([kind |-> "added",
           names |-> SubSeq(PlaceNames(acts), 1, IF Len(acts) > 3 THEN 3 ELSE Len(acts)),
           more |-> Len(acts) > 3],
          FALSE, acts)

ToolReply(acts) ==
    Reply([kind |-> "added",
           names |-> SubSeq(PlaceNames(acts), 1, IF Len(acts) > 3 THEN 3 ELSE Len(acts)),
           more |-> Len(acts) > 3],
          TRUE, acts)

-----------------------------------------------------------------------------
(* The model response *)

Queries == { <<"palace">>, <<"myeongdong", "matjip">> }

TableId(float, v) == [float |-> float, v |-> v]

\* int(args["timeTableId"]) when the model sent a float
ToInt(id) == [float |-> FALSE, v |-> id.v]

Single == "search_and_create_place_block"
Multi == "search_multiple_place_blocks"

\* The model left planContext out of the arguments of a call
NotEchoed == [k |-> "missing"]

\* A planContext the model made up: the day of timetable 7 is taken by a tour
StalePlan ==
    [TravelName |-> "Seoul", TimeTables |-> <<>>,
     TimeTablePlaceBlocks |->
         <<ExistingBlock(7, Date("iso", 10), Time("hms", 540), Time("hms", 1140), "tour")>>]

\* A part of the response.  fn is "none" for a part that is no call of a
\* search function (text, or a call of another name); argsOK is FALSE when the arguments do not fit the
\* function's parameters (the call raises TypeError)
Part(fn, argsOK, id, queries, dur) ==
    [fn |-> fn, argsOK |-> argsOK, timeTableId |-> id, queries |-> queries,
     duration_minutes |-> dur, planContext |-> NotEchoed]

\* The same part with a planContext argument filled in by the model
Echoing(p, plan) == [p EXCEPT !.planContext = plan]

PartChoices ==
    { Part("none", TRUE, TableId(FALSE, 7), <<>>, DefaultDuration),
      Part(Single, FALSE, TableId(FALSE, 7), <<>>, DefaultDuration),
      Echoing(Part(Single, TRUE, TableId(FALSE, 7), << <<"palace">> >>, DefaultDuration),
              StalePlan),
      Part(Single, TRUE, TableId(TRUE, 8), << <<"myeongdong", "matjip">> >>, DefaultDuration) }
    \cup { Part(Multi, TRUE, TableId(TRUE, 7),
                 <<<<"myeongdong", "matjip">>>>, DefaultDuration),
           Echoing(Part(Multi, TRUE, TableId(TRUE, 7),
                        [i \in 1..MaxQueries |-> <<"myeongdong", "matjip">>],
                        DefaultDuration), StalePlan) }

-----------------------------------------------------------------------------
(* The model text and the free-text path *)

NoText == [t |-> "absent"]       \* response.text raises or is empty
Prose == [t |-> "prose"]         \* text that is not JSON
\* JSON text: open and close are the code fence around the body v; "fence"
\* is three backquotes, "fence_json" the same followed by json,
\* "fence_newline" three backquotes followed by a newline
JsonText(open, v, close) == [t |-> "json", open |-> open, v |-> v, close |-> close]

GoodEntry == Map([action |-> Str("create"), targetName |-> Str("timeTablePlaceBlock"),
                  target |-> Map([placeName |-> Str("A")])])
NumberTargetEntry == Map([action |-> Str("create"), targetName |-> Str("timeTablePlaceBlock"),
                          target |-> Num(5)])
NoNameEntry == Map([action |-> Str("create"), target |-> Map([placeName |-> Str("A")])])

Missing == [k |-> "missing"]     \* the key is not in the mapping

ActionsChoices ==
    { Null, List(<<>>), List(<<GoodEntry>>), List(<<NumberTargetEntry>>),
      List(<<NoNameEntry>>), List(<<Null>>), List(<<GoodEntry, GoodEntry>>), GoodEntry,
      List(<<Null, NumberTargetEntry, List(<<GoodEntry>>), Str("create")>>) }

\* A reply document: absent keys are left out of the mapping
Doc(um, ha, acts, legacy) ==
    Map([key \in (IF um THEN {"userMessage"} ELSE {}) \cup
                 (IF ha = "missing" THEN {} ELSE {"hasAction"}) \cup
                 (IF acts = Missing THEN {} ELSE {"actions"}) \cup
                 (IF legacy = Missing THEN {} ELSE {"action"}) |->
            CASE key = "userMessage" -> Str("hello")
              [] key = "hasAction" -> Bool(ha = "true")
              [] key = "actions" -> acts
              [] key = "action" -> legacy])

Docs ==
    { Doc(TRUE, ha, acts, Missing) :
        ha \in {"true", "false", "missing"}, acts \in ActionsChoices \cup {Missing} }
    \cup { Doc(FALSE, "true", List(<<GoodEntry>>), Missing) }
    \cup { Doc(TRUE, ha, Missing, legacy) :
             ha \in {"true", "false"}, legacy \in {GoodEntry, List(<<GoodEntry>>)} }
    \cup { Doc(TRUE, "true", acts, GoodEntry) : acts \in {Null, List(<<NumberTargetEntry>>)} }

Texts ==
    { NoText, Prose, JsonText("", List(<<GoodEntry>>), ""), JsonText("", Num(5), "") }
    \cup { JsonText("", d, "") : d \in Docs }
    \cup { JsonText(o, Doc(TRUE, "true", List(<<GoodEntry>>), Missing), c) :
             o \in {"fence_json", "fence"}, c \in {"", "fence", "fence_newline"} }

Unread == [t |-> "unread"]

\* lines 166-174: response.text with the code fence removed; Fail when what
\* is left is not JSON
StripFence(text) ==
    IF text.t = "json" /\ text.close \in {"", "fence"} THEN text.v ELSE Fail

\* pydantic validation of one ActionData (app/models.py lines 85-88)
ValidAction(e) ==
    /\ e.k = "map"
    /\ {"action", "targetName", "target"} \subseteq DOMAIN e.m
    /\ e.m["action"].k = "str"
    /\ e.m["targetName"].k = "str"
    /\ e.m["target"].k = "map"

ToActionData(e) == ActionData(e.m["action"].s, e.m["targetName"].s, e.m["target"].m)

ToActions(l) == [i \in 1..Len(l) |-> ToActionData(l[i])]

\* HEAD side, lines 177-178 and 234-258
FreeTextHead(text) ==
    LET data == StripFence(text)
        um == IF "userMessage" \in DOMAIN data.m THEN data.m["userMessage"] ELSE Str("")
        ha == IF "hasAction" \in DOMAIN data.m THEN data.m["hasAction"] ELSE Bool(FALSE)
        acts == IF "actions" \in DOMAIN data.m THEN data.m["actions"] ELSE List(<<>>)
    IN  IF text = NoText
        THEN Reply(Msg("processing_error"), FALSE, <<>>)
        ELSE IF /\ data.k = "map"
                /\ um.k = "str" /\ ha.k = "bool" /\ acts.k = "list"
                /\ \A i \in 1..Len(acts.l) : ValidAction(acts.l[i])
        THEN Reply(um, ha.b, ToActions(acts.l))
        ELSE Reply([kind |-> "raw_text", text |-> text], FALSE, <<>>)

\* lines 188-190: actions, else the legacy action key
RawActionsLegacyFirst(d) ==
    IF "action" \in DOMAIN d THEN Get(d, "action") ELSE Get(d, "actions")

RawActionsOf(d) ==
    IF Get(d, "actions").k = "null" /\ "action" \in DOMAIN d
    THEN Get(d, "action")
    ELSE Get(d, "actions")

\* lines 192-197: the mapping handed to validation
Processed(d) ==
    LET normalized_actions == _normalize_actions(RawActionsOf(d))
        d1 == Del(Put(d, "actions", List(normalized_actions)), {"action"})
    IN  IF Get(d1, "hasAction") = Bool(TRUE) /\ normalized_actions = <<>>
        THEN Put(d1, "hasAction", Bool(FALSE))
        ELSE d1

\* AIResponse(**ai_data_dict), app/models.py lines 95-99
ValidResponse(d) ==
    /\ {"userMessage", "hasAction"} \subseteq DOMAIN d
    /\ d["userMessage"].k = "str"
    /\ d["hasAction"].k = "bool"
    /\ \A i \in 1..Len(d["actions"].l) : ValidAction(d["actions"].l[i])

\* lines 199-217: the reply to a validation failure carries the error and the
\* target of the first action, 'Target data not found' when there is none
ValidationErrorNoSample(d) ==
    simple_message([kind |-> "validation_error", sample |-> Str("Target data not found")])

ValidationErrorReply(d) ==
    simple_message([kind |-> "validation_error",
                    sample |-> IF d["actions"].l # <<>>
                               THEN Get(d["actions"].l[1].m, "target")
                               ELSE Str("Target data not found")])

\* the other side, lines 180-231 and 260-261; ai_data_parsed is the parsed text
FreeTextTheirs(text) ==
    LET ai_data_parsed == StripFence(text)
        d == Processed(ai_data_parsed.m)
    IN  IF text = NoText
        THEN simple_message(Msg("call_error"))
        ELSE IF ai_data_parsed.k # "map"
        THEN simple_message([kind |-> "format_error", text |-> text])
        ELSE IF ~ValidResponse(d)
        THEN ValidationErrorReply(d)
        ELSE IF d["hasAction"].b /\ d["actions"].l # <<>>
        THEN Reply(d["userMessage"], TRUE, ToActions(d["actions"].l))
        ELSE Reply(d["userMessage"], FALSE, <<>>)

-----------------------------------------------------------------------------
(* handle_java_chatbot_request of chatbot_service.py *)

NoLog == [generate |-> 0, results |-> <<>>, textRead |-> FALSE, calls |-> <<>>, found |-> <<>>]

ChatIdle ==
    /\ parts = <<>> /\ idx = 1 /\ actions = <<>> /\ produced = <<>>
    /\ rawText = Unread /\ reply = NoReply /\ log = NoLog

NormIdle == npc = "idle" /\ nArg = Null /\ normalized = <<>>

UtilIdle == upc = "idle" /\ uIn = [fn |-> "none"] /\ uOut = [t |-> "none"]

\* The price service has served nothing: the caches are as the module made them
EmptyCache == {}
PriceIdle ==
    /\ food_cache = EmptyCache /\ accom_cache = EmptyCache /\ summary_cache = EmptyCache
    /\ served = 0 /\ price_call = [t |-> "none"] /\ price_response = [t |-> "none"]

SchedIdle ==
    /\ spc = "idle" /\ sIn = [days |-> 0] /\ day = 0 /\ accommodation_place = NoPlace
    /\ time_tables = <<>> /\ place_blocks_actions = <<>> /\ sLog = <<>>

InitChat ==
    /\ merge = "unread"
    /\ handler \in {"service", "gemini_handler"}
    /\ gemini_model \in BOOLEAN
    /\ planContext \in ChatPlans
    /\ cpc = "start"
    /\ ChatIdle /\ NormIdle /\ SchedIdle /\ UtilIdle /\ PriceIdle

Finish(r) == reply' = r /\ cpc' = "done"

\* lines 19-60: the prompt and the model call, which no try encloses
ServiceGenerate ==
    /\ handler = "service" /\ cpc = "start"
    /\ IF ~gemini_model
       THEN /\ Finish(Raised)     \* None has no generate_content
            /\ UNCHANGED <<parts, log>>
       ELSE /\ log' = [log EXCEPT !.generate = @ + 1]
            /\ \/ Finish(Raised) /\ UNCHANGED parts
               \/ \E ps \in SeqsUpTo(PartChoices, MaxParts) :
                     parts' = ps /\ cpc' = "tools" /\ UNCHANGED reply
    /\ UNCHANGED <<merge, handler, gemini_model, idx, actions, produced, rawText,
                   normVars, planContext, schedVars, utilVars, priceVars>>

\* What one executed search reported: "found", "not_found" or "raise"
Outcome(r) ==
    CASE r.t = "raise" -> "raise"
      [] r.t = "error" -> "not_found"
      [] r.t = "blocks" /\ r.blocks = <<>> -> "not_found"
      [] OTHER -> "found"

\* A handler that trusts the planContext the model echoed: the request's
\* only when the arguments have none
CallArgsEchoed(p) ==
    [planContext |-> IF p.planContext = NotEchoed THEN planContext ELSE p.planContext,
     timeTableId |-> IF p.timeTableId.float THEN ToInt(p.timeTableId) ELSE p.timeTableId]

\* lines 89-96: the arguments of the call. planContext is overwritten with
\* the request's, a float timeTableId becomes an int
CallArgs(p) ==
    [planContext |-> planContext,
     timeTableId |-> IF p.timeTableId.float THEN ToInt(p.timeTableId) ELSE p.timeTableId]

\* One call of a search function as the handler made it: the part it came
\* from, the arguments it was given and the number of blocks it returned
Call(part, args, blocks) ==
    [part |-> part, planContext |-> args.planContext, timeTableId |-> args.timeTableId,
     blocks |-> blocks]

\* lines 79-143: one part of the response
ServiceToolPart ==
    /\ handler = "service" /\ cpc = "tools" /\ idx <= Len(parts)
    /\ LET p == parts[idx]
           args == CallArgs(p)
           id == args.timeTableId
       IN  \/ /\ p.fn \notin {Single, Multi}
              /\ idx' = idx + 1
              /\ UNCHANGED <<actions, produced, reply, cpc, log>>
           \/ /\ p.fn \in {Single, Multi} /\ ~p.argsOK
              /\ Finish(Raised)
              /\ log' = [log EXCEPT !.results = Append(@, "raise"),
                                     !.calls = Append(@, Call(idx, args, 0))]
              /\ UNCHANGED <<idx, actions, produced>>
           \/ /\ p.fn = Single /\ p.argsOK
              /\ \E n \in 0..MaxResults :
                    LET r == search_and_create_place_block(p.queries[1], id, args.planContext,
                                                           p.duration_minutes, n)
                    IN  /\ log' = [log EXCEPT !.results = Append(@, Outcome(r)),
                                !.calls = Append(@, Call(idx, args,
                                              IF r.t = "block" THEN 1 ELSE 0)),
                                !.found = Append(@, n)]
                        /\ CASE r.t = "raise" ->
                                  Finish(Raised) /\ UNCHANGED <<idx, actions, produced>>
                             [] r.t = "error" ->
                                  Finish(NotFoundReply) /\ UNCHANGED <<idx, actions, produced>>
                             [] r.t = "block" ->
                                  /\ actions' = Append(actions,
                                         ActionData("create", "timeTablePlaceBlock", r.block))
                                  /\ produced' = Append(produced, r.block)
                                  /\ idx' = idx + 1
                                  /\ UNCHANGED <<reply, cpc>>
           \/ /\ p.fn = Multi /\ p.argsOK
              \* the queries of one call are the same text: the collaborator
              \* has the same number n of results for each of them
              /\ \E n \in 0..MaxResults :
                    LET ns == [i \in 1..Len(p.queries) |-> n]
                        r == search_multiple_place_blocks(p.queries, id, args.planContext,
                                                          p.duration_minutes, ns)
                    IN  /\ log' = [log EXCEPT !.results = Append(@, Outcome(r)),
                                !.calls = Append(@, Call(idx, args,
                                              IF r.t = "blocks" THEN Len(r.blocks) ELSE 0)),
                                !.found = Append(@, n)]
                        /\ CASE r.t = "raise" ->
                                  Finish(Raised) /\ UNCHANGED <<idx, actions, produced>>
                             [] r.t = "blocks" /\ r.blocks = <<>> ->
                                  Finish(NotFoundReply) /\ UNCHANGED <<idx, actions, produced>>
                             [] OTHER ->
                                  /\ actions' = actions \o
                                         [i \in 1..Len(r.blocks) |->
                                             ActionData("create", "timeTablePlaceBlock", r.blocks[i])]
                                  /\ produced' = produced \o r.blocks
                                  /\ idx' = idx + 1
                                  /\ UNCHANGED <<reply, cpc>>
    /\ planContext' = PlanAfter(planContext,
                                SubSeq(produced', Len(produced) + 1, Len(produced')))
    /\ UNCHANGED <<merge, handler, gemini_model, parts, rawText,
                   normVars, schedVars, utilVars, priceVars>>

\* lines 148-160: the tool-call path produced actions
ServiceToolReturn ==
    /\ handler = "service" /\ cpc = "tools" /\ idx > Len(parts)
    /\ actions # <<>>
    /\ Finish(ToolReply(actions))
    /\ UNCHANGED <<merge, handler, gemini_model, parts, idx, actions, produced, rawText,
                   log, normVars, planContext, schedVars, utilVars, priceVars>>

\* lines 165-261: the free-text path
ServiceFreeText ==
    /\ handler = "service" /\ cpc = "tools" /\ idx > Len(parts)
    /\ actions = <<>>
    /\ \E text \in Texts, side \in {"HEAD", "theirs"} :
          /\ rawText' = text
          /\ merge' = side
          /\ log' = [log EXCEPT !.textRead = TRUE]
          /\ IF side = "HEAD"
             THEN Finish(FreeTextHead(text)) /\ UNCHANGED <<nArg, normalized>>
             ELSE /\ Finish(FreeTextTheirs(text))
                  /\ IF StripFence(text).k = "map"
                     THEN /\ nArg' = RawActionsOf(StripFence(text).m)
                          /\ normalized' = _normalize_actions(RawActionsOf(StripFence(text).m))
                     ELSE UNCHANGED <<nArg, normalized>>
    /\ UNCHANGED <<handler, gemini_model, parts, idx, actions, produced,
                   npc, planContext, schedVars, utilVars, priceVars>>

-----------------------------------------------------------------------------
(* handle_java_chatbot_request of chatbot_gemini_handler.py *)

\* lines 43-77 once the model answered with text
GeminiHandlerReply(text) ==
    LET parsed == StripFence(text)
        \* actions has a default, the empty list
        d == IF "actions" \in DOMAIN parsed.m THEN parsed.m
             ELSE Put(parsed.m, "actions", List(<<>>))
    IN  IF text = NoText THEN simple_message(Msg("no_response"))
        \* json.loads of the text as it is: a code fence is not removed
        ELSE IF text.t # "json" \/ text.open # "" \/ text.close # "" \/ parsed.k # "map"
        THEN simple_message([kind |-> "unknown_structure", text |-> text])
        ELSE IF ~(d["actions"].k = "list" /\ ValidResponse(d))
        THEN simple_message([kind |-> "unknown_structure", text |-> text])
        \* line 64 reads ai_response_data.action, which AIResponse does not
        \* have: the AttributeError reaches the except of line 79
        ELSE IF d["hasAction"].b
        THEN simple_message(Msg("call_error"))
        ELSE Reply(d["userMessage"], FALSE, <<>>)

GeminiHandlerRun ==
    /\ handler = "gemini_handler" /\ cpc = "start"
    /\ IF ~gemini_model
       THEN /\ Finish(simple_message(Msg("gemini_unset")))
            /\ UNCHANGED <<rawText, log>>
       ELSE \/ /\ log' = [log EXCEPT !.generate = @ + 1]
               /\ Finish(simple_message(Msg("call_error")))
               /\ UNCHANGED rawText
            \/ \E text \in Texts :
                  /\ log' = [log EXCEPT !.generate = @ + 1, !.textRead = TRUE]
                  /\ rawText' = text
                  /\ Finish(GeminiHandlerReply(text))
    /\ UNCHANGED <<merge, handler, gemini_model, parts, idx, actions, produced,
                   normVars, planContext, schedVars, utilVars, priceVars>>

NextChat ==
    \/ ServiceGenerate
    \/ ServiceToolPart
    \/ ServiceToolReturn
    \/ ServiceFreeText
    \/ GeminiHandlerRun

SpecChat == InitChat /\ [][NextChat]_vars

-----------------------------------------------------------------------------
(* The auto scheduler: app/services/auto_schedule.py *)

\* predefined_slots, lines 238-243
MorningStart == 540         \* "09:00:00"
MorningEnd == 660           \* "11:00:00"
LunchStart == 720           \* "12:00:00"
LunchEnd == 840             \* "14:00:00"
DinnerStart == 1080         \* "18:00:00"
DinnerEnd == 1200           \* "20:00:00"
AccommodationStart == 1260  \* "21:00:00"
AccommodationEnd == 1439    \* "23:59:00"

\* lines 14-44: the blocks whose date, list or string, is date_str
get_existing_blocks_for_date(plan, date_str) ==
    SelectSeq(parse_blocks_from_plan(plan),
              LAMBDA b : b.date.enc \in {"list", "iso"} /\ b.date.d = date_str)

\* "not block_start or not block_end": an empty time is skipped
HasBothTimes(b) == b.blockStartTime.enc # "empty" /\ b.blockEndTime.enc # "empty"

\* strptime(t, "%H:%M:%S") raises ValueError on "HH:MM"; a list is not
\* converted and the comparison with a time raises TypeError
CompareRaises(b) == b.blockStartTime.enc # "hms" \/ b.blockEndTime.enc # "hms"

\* line 81 and line 142: A.start < B.end and B.start < A.end
OverlapsStartInside(s1, e1, s2, e2) == s1 <= s2 /\ s2 < e1
OverlapsClosed(s1, e1, s2, e2) == s1 <= e2 /\ s2 <= e1

Overlaps(s1, e1, s2, e2) == s1 < e2 /\ s2 < e1

\* lines 47-84; "raise" when a comparison raises before a conflict is found
RECURSIVE has_time_conflict(_, _, _)
has_time_conflict(existing_blocks, start_time, end_time) ==
    IF existing_blocks = <<>> THEN "no"
    ELSE LET block == Head(existing_blocks)
         IN  IF ~HasBothTimes(block)
             THEN has_time_conflict(Tail(existing_blocks), start_time, end_time)
             ELSE IF CompareRaises(block) THEN "raise"
             ELSE IF Overlaps(start_time, end_time,
                              block.blockStartTime.t, block.blockEndTime.t)
             THEN "yes"
             ELSE has_time_conflict(Tail(existing_blocks), start_time, end_time)

\* lines 126-144: the first block of day 1 in the lodging slot; NoBlock when
\* there is none, "raise" when a comparison raises first
NoBlock == [t |-> "none"]
FoundNothing(first_day_blocks) == NoBlock

RECURSIVE ExistingAccommodation(_)
ExistingAccommodation(first_day_blocks) ==
    IF first_day_blocks = <<>> THEN NoBlock
    ELSE LET block == Head(first_day_blocks)
         IN  IF ~HasBothTimes(block)
             THEN ExistingAccommodation(Tail(first_day_blocks))
             ELSE IF CompareRaises(block) THEN [t |-> "raise"]
             ELSE IF Overlaps(AccommodationStart, AccommodationEnd,
                              block.blockStartTime.t, block.blockEndTime.t)
             THEN [t |-> "block", block |-> block]
             ELSE ExistingAccommodation(Tail(first_day_blocks))

\* The search collaborator of one scheduler call: n results for every query,
\* none for the queries in fails
ResultCount(in, query) == IF query \in in.fails THEN 0 ELSE in.n

SightQuery(destination) == destination \o <<"gwangwangji">>
FoodQuery(destination) == destination \o <<"matjip">>
DinnerQuery(destination, day_number) ==
    IF day_number % 2 = 0 THEN destination \o <<"hoe", "matjip">>
    ELSE destination \o <<"gogi", "matjip">>
HotelQuery(destination) == destination \o <<"hotel">>

SchedBlock(place, start, end, category, id, date_str) ==
    [blockId |-> -1, placeName |-> place.placeName, placeId |-> place.placeId,
     blockStartTime |-> Time("hms", start), blockEndTime |-> Time("hms", end),
     placeCategoryId |-> category, timeTableId |-> TableId(FALSE, id),
     date |-> Date("iso", date_str)]

\* lines 311-356; <<>> when the search found nothing
create_place_block(in, query, start, end, date_str, id, result_index) ==
    LET google_place == call_google_places(query, result_index, ResultCount(in, query))
    IN  IF google_place = NoPlace THEN <<>>
        ELSE <<SchedBlock(google_place, start, end, detect_place_category(query),
                          id, date_str)>>

\* lines 359-402
create_place_block_from_data(place_data, start, end, date_str, id) ==
    SchedBlock(place_data, start, end, 1, id, date_str)

\* The outcome of a step that may raise: the blocks it adds and the
\* searches it sent to the collaborator
Raise == [t |-> "raise"]
Ok(blocks, searches) == [t |-> "ok", blocks |-> blocks, searches |-> searches]
Search(query, result_index) == [query |-> query, result_index |-> result_index]

\* One slot of lines 245-291
SearchSlot(in, existing_blocks, query, start, end, date_str, id, result_index) ==
    LET c == has_time_conflict(existing_blocks, start, end)
    IN  IF c = "raise" THEN Raise
        ELSE IF c = "yes" THEN Ok(<<>>, <<>>)
        ELSE Ok(create_place_block(in, query, start, end, date_str, id, result_index),
                <<Search(query, result_index)>>)

\* lines 293-306
LodgingSlot(existing_blocks, is_last_day, place, date_str, id) ==
    IF is_last_day \/ place = NoPlace THEN Ok(<<>>, <<>>)
    ELSE LET c == has_time_conflict(existing_blocks, AccommodationStart, AccommodationEnd)
         IN  IF c = "raise" THEN Raise
             ELSE IF c = "yes" THEN Ok(<<>>, <<>>)
             ELSE Ok(<<create_place_block_from_data(place, AccommodationStart,
                                                    AccommodationEnd, date_str, id)>>, <<>>)

\* lines 205-308: Raise or the day's blocks
create_daily_schedule(in, day_number, date_str, id, is_last_day, place, plan) ==
    LET existing_blocks == get_existing_blocks_for_date(plan, date_str)
        morning == SearchSlot(in, existing_blocks, SightQuery(in.destination),
                              MorningStart, MorningEnd, date_str, id, day_number - 1)
        lunch == SearchSlot(in, existing_blocks, FoodQuery(in.destination),
                            LunchStart, LunchEnd, date_str, id, day_number - 1)
        dinner == SearchSlot(in, existing_blocks, DinnerQuery(in.destination, day_number),
                             DinnerStart, DinnerEnd, date_str, id, day_number - 1)
        lodging == LodgingSlot(existing_blocks, is_last_day, place, date_str, id)
    IN  IF Raise \in {morning, lunch, dinner, lodging}
        THEN Raise
        ELSE Ok(morning.blocks \o lunch.blocks \o dinner.blocks \o lodging.blocks,
                morning.searches \o lunch.searches \o dinner.searches)

LastDayNever(d, days) == FALSE

\* line 191
IsLastDay(d, days) == d = days - 1

Destinations == { <<"seoul">> }

\* A destination whose name holds a lodging keyword
KeywordDestinations == { <<"hotel", "valley">> }

SchedInputs ==
    [days : 1..MaxDays, start_date : StartDates, destination : Destinations,
     n : 1..MaxResults,
     fails : { {}, {HotelQuery(<<"seoul">>)}, {SightQuery(<<"seoul">>)},
               {HotelQuery(<<"seoul">>), SightQuery(<<"seoul">>), FoodQuery(<<"seoul">>),
                DinnerQuery(<<"seoul">>, 1), DinnerQuery(<<"seoul">>, 2)} }]
    \cup [days : 1..MaxDays, start_date : StartDates, destination : KeywordDestinations,
           n : {1}, fails : { {} }]

InitSched ==
    /\ spc = "lodging"
    /\ sIn \in SchedInputs
    /\ planContext \in {p \in Plans : Len(p.TimeTables) # 1}
    /\ day = 0 /\ accommodation_place = NoPlace
    /\ time_tables = <<>> /\ place_blocks_actions = <<>> /\ sLog = <<>>
    /\ merge = "theirs" /\ handler = "service" /\ gemini_model = TRUE
    /\ cpc = "idle"
    /\ ChatIdle /\ NormIdle /\ UtilIdle /\ PriceIdle

\* lines 109-166: the lodging place, chosen before the loop
SchedLodging ==
    /\ spc = "lodging"
    /\ LET first_day_blocks == get_existing_blocks_for_date(planContext, sIn.start_date)
           existing_accommodation == ExistingAccommodation(first_day_blocks)
       IN  IF sIn.days > 1
           THEN CASE existing_accommodation.t = "raise" ->
                        spc' = "raised" /\ UNCHANGED <<accommodation_place, sLog>>
                  [] existing_accommodation.t = "block" ->
                        /\ accommodation_place' =
                              [placeName |-> existing_accommodation.block.placeName,
                               placeId |-> existing_accommodation.block.placeId]
                        /\ spc' = "loop"
                        /\ UNCHANGED sLog
                  [] OTHER ->
                        /\ accommodation_place' =
                              call_google_places(HotelQuery(sIn.destination), 0,
                                                 ResultCount(sIn, HotelQuery(sIn.destination)))
                        /\ sLog' = Append(sLog, Search(HotelQuery(sIn.destination), 0))
                        /\ spc' = "loop"
           ELSE spc' = "loop" /\ UNCHANGED <<accommodation_place, sLog>>
    /\ UNCHANGED <<sIn, day, time_tables, place_blocks_actions,
                   chatVars, normVars, planContext, utilVars, priceVars>>

\* Every day under the placeholder of the first
SharedPlaceholder(d) == -1

\* line 184: the placeholder of the TimeTable of the day with index d
temp_time_table_id(d) == -(d + 1)

\* lines 168-197: one day of the loop
SchedDay ==
    /\ spc = "loop" /\ day < sIn.days
    /\ LET date_str == sIn.start_date + day
           day_blocks == create_daily_schedule(sIn, day + 1, date_str, temp_time_table_id(day),
                                               IsLastDay(day, sIn.days),
                                               accommodation_place, planContext)
       IN  IF day_blocks = Raise
           THEN spc' = "raised" /\ UNCHANGED <<day, time_tables, place_blocks_actions, sLog>>
           ELSE /\ time_tables' = Append(time_tables,
                      ActionData("create", "timeTable", [date |-> Date("iso", date_str)]))
                /\ place_blocks_actions' = place_blocks_actions \o day_blocks.blocks
                /\ sLog' = sLog \o day_blocks.searches
                /\ day' = day + 1
                /\ UNCHANGED spc
    /\ planContext' = PlanAfter(planContext,
                                SubSeq(place_blocks_actions', Len(place_blocks_actions) + 1,
                                       Len(place_blocks_actions')))
    /\ UNCHANGED <<sIn, accommodation_place, chatVars, normVars, utilVars, priceVars>>

\* lines 199-202
SchedReturn ==
    /\ spc = "loop" /\ day = sIn.days
    /\ spc' = "done"
    /\ UNCHANGED <<sIn, day, accommodation_place, time_tables, place_blocks_actions,
                   sLog, chatVars, normVars, planContext, utilVars, priceVars>>

NextSched == SchedLodging \/ SchedDay \/ SchedReturn

SpecSched == InitSched /\ [][NextSched]_vars

-----------------------------------------------------------------------------
(* _normalize_actions called on its own *)

TargetChoices ==
    { Map([placeName |-> Str("A")]), List(<<>>), List(<<Map([placeName |-> Str("A")])>>),
      List(<<Str("\"placeName\":\"A\"")>>), List(<<Str("hello")>>), List(<<Num(5)>>),
      Str("{\"placeName\":\"A\"}"), Str("hello"), Num(5), Bool(TRUE) }

\* An action mapping: name says whether targetName is there, target and
\* targetId are Missing when the key is absent
Entry(name, target, targetId) ==
    Map([key \in {"action"} \cup (IF name THEN {"targetName"} ELSE {}) \cup
                 (IF target = Missing THEN {} ELSE {"target"}) \cup
                 (IF targetId = Missing THEN {} ELSE {"targetId"}) |->
            CASE key = "action" -> Str("create")
              [] key = "targetName" -> Str("timeTablePlaceBlock")
              [] key = "target" -> target
              [] key = "targetId" -> targetId])

EntryChoices ==
    { Entry(TRUE, t, Missing) : t \in TargetChoices }
    \cup { Entry(name, t, id) : name \in BOOLEAN, t \in {Missing, Null}, id \in {Missing, Num(3)} }
    \cup { Null, List(<<>>), List(<<GoodEntry>>), Str("create"), Num(5) }

RawActionsChoices ==
    {Null} \cup EntryChoices \cup {List(l) : l \in SeqsUpTo(EntryChoices, MaxEntries)}

InitNorm ==
    /\ npc = "call" /\ nArg \in RawActionsChoices /\ normalized = <<>>
    /\ merge = "theirs" /\ handler = "service" /\ gemini_model = TRUE
    /\ planContext = [TravelName |-> "Seoul", TimeTables |-> <<>>, TimeTablePlaceBlocks |-> <<>>]
    /\ cpc = "idle"
    /\ ChatIdle /\ SchedIdle /\ UtilIdle /\ PriceIdle

NormalizeCall ==
    /\ npc = "call"
    /\ normalized' = _normalize_actions(nArg)
    /\ npc' = "done"
    /\ UNCHANGED <<nArg, chatVars, planContext, schedVars, utilVars, priceVars>>

NextNorm == NormalizeCall

SpecNorm == InitNorm /\ [][NextNorm]_vars

-----------------------------------------------------------------------------
(* Properties of the normalizer and the chat handler *)

\* The entries of a raw actions value, as the loop of _normalize_actions sees them
EntriesOf(raw) == IF raw.k = "list" THEN raw.l ELSE IF raw.k = "null" THEN <<>> ELSE <<raw>>

\* C1: every action _normalize_actions keeps is a mapping whose target is a
\* mapping, whatever the incoming target was.
C1_TargetIsMapping ==
    npc = "done" =>
        \A i \in 1..Len(normalized) :
            /\ normalized[i].k = "map"
            /\ "target" \in DOMAIN normalized[i].m
            /\ normalized[i].m["target"].k = "map"

\* An entry with a number, string or list target was kept
C1_Witness ==
    /\ npc = "done" /\ normalized # <<>>
    /\ \E i \in 1..Len(EntriesOf(nArg)) :
          /\ EntriesOf(nArg)[i].k = "map"
          /\ Get(EntriesOf(nArg)[i].m, "target").k \in {"num", "bool"}
    /\ \E i \in 1..Len(EntriesOf(nArg)) :
          /\ EntriesOf(nArg)[i].k = "map"
          /\ Get(EntriesOf(nArg)[i].m, "target").k \in {"list", "str"}

\* C2: a returned ChatReply has hasAction exactly when its actions are not empty.
C2_HasActionIffActions ==
    reply.t = "reply" => (reply.hasAction <=> reply.actions # <<>>)

\* C7: once a search reports no result the handler has returned the fixed
\* apology without actions, and that search is the last one executed.
C7_NotFoundShortCircuits ==
    \A i \in 1..Len(log.results) :
        log.results[i] = "not_found" =>
            /\ i = Len(log.results)
            /\ cpc = "done"
            /\ reply.t = "reply"
            /\ reply.userMessage = Msg("place_not_found")
            /\ reply.hasAction = FALSE
            /\ reply.actions = <<>>

\* A search found nothing after an earlier invocation of the same response
\* had produced a block: the apology is returned and the block is dropped
C7_Witness ==
    /\ cpc = "done" /\ produced # <<>> /\ actions # <<>>
    /\ Len(log.results) = 2 /\ log.results[1] = "found" /\ log.results[2] = "not_found"
    /\ reply = NotFoundReply

CreateActions(blocks) ==
    [i \in 1..Len(blocks) |-> ActionData("create", "timeTablePlaceBlock", blocks[i])]

\* C8 as stated: whenever the invocations produced a block, the reply carries
\* one action per produced block and hasAction = true.
C8_ProducedBlocksReturned ==
    (cpc = "done" /\ produced # <<>> /\ reply.t = "reply") =>
        /\ reply.hasAction
        /\ reply.actions = CreateActions(produced)
        /\ ~log.textRead

\* C8 amended: when every executed search reported a result and a block was
\* produced, the reply has hasAction = true and one create action per produced
\* block in order, and the text was not read; the text is read only when no
\* block was produced.
C8_AllFoundBlocksReturned ==
    /\ (cpc = "done" /\ produced # <<>>
        /\ \A i \in 1..Len(log.results) : log.results[i] = "found") =>
            /\ reply.t = "reply"
            /\ reply.hasAction
            /\ reply.actions = CreateActions(produced)
            /\ ~log.textRead
    /\ log.textRead => produced = <<>>

\* Two invocations each produced blocks and the handler returned
C8_Witness ==
    /\ cpc = "done" /\ Len(log.results) = 2 /\ Len(produced) >= 2
    /\ \A i \in 1..Len(log.results) : log.results[i] = "found"

\* C9: with gemini_model None the handler returns the fixed diagnostic
\* without calling generate_content.
C9_UnavailableModelDiagnostic ==
    (cpc = "done" /\ ~gemini_model) =>
        /\ reply = simple_message(Msg("gemini_unset"))
        /\ log.generate = 0

\* C10: no exception leaves the handler when the model object exists.
C10_NoExceptionEscapes ==
    (cpc = "done" /\ gemini_model) => reply.t = "reply"

-----------------------------------------------------------------------------
(* Properties of the auto scheduler *)

TripDates == {sIn.start_date + d : d \in 0..(sIn.days - 1)}

\* The existing blocks of a date that have an interval
DatedBlocks(date_str) ==
    {i \in 1..Len(planContext.TimeTablePlaceBlocks) :
        LET b == planContext.TimeTablePlaceBlocks[i]
        IN  /\ b.date.enc \in {"list", "iso"} /\ b.date.d = date_str
            /\ b.blockStartTime.enc # "empty" /\ b.blockEndTime.enc # "empty"}

Intersect(s1, e1, b) == s1 < b.blockEndTime.t /\ b.blockStartTime.t < e1

TemplateSlots ==
    { <<MorningStart, MorningEnd>>, <<LunchStart, LunchEnd>>,
      <<DinnerStart, DinnerEnd>>, <<AccommodationStart, AccommodationEnd>> }

Emitted(date_str) ==
    {i \in 1..Len(place_blocks_actions) : place_blocks_actions[i].date.d = date_str}

\* C3: a template slot that overlaps an existing block of its date gets no
\* create action; no emitted block overlaps an existing block of its date, and
\* no two emitted blocks of one date overlap.
C3_NoOverlapWithExisting ==
    spc \in {"loop", "done"} =>
        \A date_str \in TripDates :
            /\ \A slot \in TemplateSlots :
                  (\E j \in DatedBlocks(date_str) :
                      Intersect(slot[1], slot[2], planContext.TimeTablePlaceBlocks[j]))
                  => \A i \in Emitted(date_str) :
                        place_blocks_actions[i].blockStartTime.t # slot[1]
            /\ \A i \in Emitted(date_str) : \A j \in DatedBlocks(date_str) :
                  ~Intersect(place_blocks_actions[i].blockStartTime.t,
                             place_blocks_actions[i].blockEndTime.t,
                             planContext.TimeTablePlaceBlocks[j])
            /\ \A i, j \in Emitted(date_str) :
                  i # j => ~Intersect(place_blocks_actions[i].blockStartTime.t,
                                      place_blocks_actions[i].blockEndTime.t,
                                      place_blocks_actions[j])

\* A day with an existing block in the morning slot got its lunch and dinner
C3_Witness ==
    /\ spc = "done"
    /\ \E date_str \in TripDates :
          /\ \E j \in DatedBlocks(date_str) :
                Intersect(MorningStart, MorningEnd, planContext.TimeTablePlaceBlocks[j])
          /\ \E i \in Emitted(date_str) :
                place_blocks_actions[i].blockStartTime.t = LunchStart
          /\ \E i \in Emitted(date_str) :
                place_blocks_actions[i].blockStartTime.t = DinnerStart

SlotBlocks(date_str, start) ==
    {i \in Emitted(date_str) : place_blocks_actions[i].blockStartTime.t = start}

EmptyPlan == planContext.TimeTablePlaceBlocks = <<>> /\ planContext.TimeTables = <<>>

\* C4: with an empty plan and every search succeeding, N days give N
\* TimeTable actions and 4*(N-1)+3 blocks: morning, lunch and dinner every
\* day, lodging every day but the last, one lodging place.
C4_FullTripCounts ==
    (spc = "done" /\ EmptyPlan /\ sIn.fails = {}) =>
        /\ Len(time_tables) = sIn.days
        /\ Len(place_blocks_actions) = 4 * (sIn.days - 1) + 3
        /\ \A d \in 0..(sIn.days - 1) :
              /\ Cardinality(SlotBlocks(sIn.start_date + d, MorningStart)) = 1
              /\ Cardinality(SlotBlocks(sIn.start_date + d, LunchStart)) = 1
              /\ Cardinality(SlotBlocks(sIn.start_date + d, DinnerStart)) = 1
              /\ Cardinality(SlotBlocks(sIn.start_date + d, AccommodationStart))
                    = IF d = sIn.days - 1 THEN 0 ELSE 1
        /\ \A i, j \in 1..Len(place_blocks_actions) :
              (/\ place_blocks_actions[i].blockStartTime.t = AccommodationStart
               /\ place_blocks_actions[j].blockStartTime.t = AccommodationStart)
              => place_blocks_actions[i].placeName = place_blocks_actions[j].placeName

\* The three-day trip of the example: 3 timetables, 11 blocks
C4_Witness ==
    /\ spc = "done" /\ EmptyPlan /\ sIn.fails = {} /\ sIn.days = 3
    /\ Len(time_tables) = 3 /\ Len(place_blocks_actions) = 11

HotelSearches == {i \in 1..Len(sLog) : sLog[i].query = HotelQuery(sIn.destination)}

\* The existing blocks of day 1 whose interval meets the lodging slot
LodgingCandidates ==
    {j \in DatedBlocks(sIn.start_date) :
        Intersect(AccommodationStart, AccommodationEnd, planContext.TimeTablePlaceBlocks[j])}

FirstCandidate ==
    planContext.TimeTablePlaceBlocks[CHOOSE j \in LodgingCandidates :
                                         \A k \in LodgingCandidates : j <= k]

\* C5: the lodging place is fixed before the loop with at most one lodging
\* search: none when day 1 has a block in the lodging slot (its place is
\* used) or when days <= 1, exactly one otherwise; every lodging block
\* carries that place.
C5_LodgingOnce ==
    spc \in {"loop", "done"} =>
        /\ Cardinality(HotelSearches) <= 1
        /\ sIn.days <= 1 => HotelSearches = {} /\ accommodation_place = NoPlace
        /\ (sIn.days > 1 /\ LodgingCandidates # {}) =>
              /\ HotelSearches = {}
              /\ accommodation_place.placeName = FirstCandidate.placeName
              /\ accommodation_place.placeId = FirstCandidate.placeId
        /\ (sIn.days > 1 /\ LodgingCandidates = {}) =>
              /\ Cardinality(HotelSearches) = 1
              /\ sLog[1].query = HotelQuery(sIn.destination)
        /\ \A i \in 1..Len(place_blocks_actions) :
              place_blocks_actions[i].blockStartTime.t = AccommodationStart =>
                  /\ place_blocks_actions[i].placeName = accommodation_place.placeName
                  /\ place_blocks_actions[i].placeId = accommodation_place.placeId

\* Day 1 had a block in the lodging slot and a later day got the lodging block
C5_Witness ==
    /\ spc = "done" /\ LodgingCandidates # {} /\ HotelSearches = {}
    /\ \E i \in 1..Len(place_blocks_actions) :
          /\ place_blocks_actions[i].blockStartTime.t = AccommodationStart
          /\ place_blocks_actions[i].placeName = FirstCandidate.placeName

\* C6: for a date that has a TimeTable in the PlanContext no TimeTable create
\* action is emitted and the blocks of that date carry its identifier.
C6_ExistingTimeTableReused ==
    spc = "done" =>
        \A k \in 1..Len(planContext.TimeTables) :
            planContext.TimeTables[k].date.d \in TripDates =>
                /\ \A i \in 1..Len(time_tables) :
                      time_tables[i].target.date.d # planContext.TimeTables[k].date.d
                /\ \A i \in Emitted(planContext.TimeTables[k].date.d) :
                      place_blocks_actions[i].timeTableId.v = planContext.TimeTables[k].timeTableId

-----------------------------------------------------------------------------
(* Properties of the normalizing free-text path *)

\* The mapping the model text parsed to, on the side that normalizes
ParsedDoc == StripFence(rawText).m

NormalizingRun ==
    /\ cpc = "done" /\ handler = "service" /\ merge = "theirs"
    /\ StripFence(rawText).k = "map"

\* C11: when the normalized output does not validate (an entry lacks action
\* or targetName, or userMessage or hasAction is missing), the reply is the
\* diagnostic: hasAction false, no actions, and a message with the validation
\* error and the target of the first normalized action.
C11_ValidationFailureDiagnostic ==
    (/\ NormalizingRun
     /\ \/ \E i \in 1..Len(normalized) : ~ValidAction(normalized[i])
        \/ ~({"userMessage", "hasAction"} \subseteq DOMAIN ParsedDoc))
    => /\ reply.t = "reply"
       /\ reply.hasAction = FALSE
       /\ reply.actions = <<>>
       /\ reply.userMessage.kind = "validation_error"
       /\ reply.userMessage.sample =
             IF normalized = <<>> THEN Str("Target data not found")
             ELSE normalized[1].m["target"]

\* An entry without targetName reached validation and its target was sampled
C11_Witness ==
    /\ NormalizingRun
    /\ normalized # <<>>
    /\ "targetName" \notin DOMAIN normalized[1].m
    /\ reply.t = "reply" /\ reply.userMessage.kind = "validation_error"
    /\ reply.userMessage.sample = normalized[1].m["target"]

-----------------------------------------------------------------------------
(* Direct calls of the utility functions *)

IntId(v) == [float |-> FALSE, v |-> v]

\* Blocks handed to find_non_overlapping_time: intervals of timetable 7, one
\* block of another timetable, one block without a start time
FindIntervals ==
    { <<540, 630>>, <<570, 615>>, <<600, 720>>, <<540, 1140>>, <<1080, 1200>>,
      <<1290, 1350>> }

FindBlocks ==
    { ExistingBlock(7, Date("iso", 10), Time("hms", iv[1]), Time("hms", iv[2]), "x") :
          iv \in FindIntervals }
    \cup { ExistingBlock(8, Date("iso", 10), Time("hms", 540), Time("hms", 1200), "y"),
           ExistingBlock(7, Date("iso", 10), Time("empty", 0), Time("hms", 600), "draft") }

Durations == {60, 90, 120}

FindCalls ==
    [fn : {"find_non_overlapping_time"},
     existing_blocks : SeqsUpTo(FindBlocks, MaxExisting),
     timeTableId : {IntId(7)},
     duration_minutes : Durations]

\* Blocks handed to has_time_conflict: around the morning slot, one without
\* an end time, one with list-encoded times
ConflictBlocks ==
    { ExistingBlock(7, Date("iso", 10), Time("hms", iv[1]), Time("hms", iv[2]), "x") :
          iv \in { <<480, 540>>, <<570, 615>>, <<630, 720>>, <<660, 720>>, <<780, 800>> } }
    \cup { ExistingBlock(7, Date("iso", 10), Time("hms", 600), Time("empty", 0), "open"),
           ExistingBlock(7, Date("iso", 10), Time("list", 600), Time("list", 630), "listed") }

ConflictCalls ==
    [fn : {"has_time_conflict"},
     existing_blocks : SeqsUpTo(ConflictBlocks, MaxExisting),
     slot : { <<MorningStart, MorningEnd>>, <<LunchStart, LunchEnd>> }]

MaxTimeList == 5     \* longest list handed to _parse_time

\* Values handed to _parse_time, in full: a string in one of the formats
\* ("other" is a string neither format matches), a list of integers, an
\* integer (a value of another type), or an empty value (None, "")
StrTime(fmt, h, m, sec) == [k |-> "str", fmt |-> fmt, h |-> h, m |-> m, sec |-> sec]
ListTime(l) == [k |-> "list", l |-> l]

TimeValues ==
    { StrTime("hms", h, m, sec) : h \in {0, 10}, m \in {0, 30}, sec \in {0, 30} }
    \cup { StrTime("hm", h, m, 0) : h \in {0, 10}, m \in {0, 30} }
    \cup { StrTime("other", 0, 0, 0) }
    \cup { ListTime(l) : l \in SeqsUpTo({0, 10, 30}, MaxTimeList) }
    \cup { [k |-> "int", n |-> n] : n \in {0, 930} }
    \cup { [k |-> "none"] }

ParseCalls == [fn : {"_parse_time"}, t : TimeValues]

RepairCalls == [fn : {"robust_json_parse"}, s : Strings]

\* Calls of search_multiple_place_blocks: the PlanContext has no block, one
\* block, or a day that is full until 20:00; the collaborator has n results
\* for a query, none for the queries in fails
MultiPlans ==
    { <<>> } \cup { <<b>> : b \in FindBlocks }
    \cup { <<ExistingBlock(7, Date("iso", 10), Time("hms", 540), Time("hms", 1140), "x"),
             ExistingBlock(7, Date("iso", 10), Time("hms", 1080), Time("hms", 1200), "x")>> }

MultiCalls ==
    [fn : {"search_multiple_place_blocks"},
     queries : UNION {[1..m -> {<<"palace">>, <<"myeongdong", "matjip">>}] : m \in 1..MaxQueries},
     timeTableId : {IntId(7)},
     existing_blocks : MultiPlans,
     duration_minutes : Durations,
     n : 1..MaxResults,
     fails : { {}, {<<"palace">>} }]

\* The weather recommendation endpoint (src/app/api/routes.py) and the service
\* function of the same logic (recommendation_service.py)
MaxForecastDays == 16

\* start_date and end_date of a request: ISO dates as day numbers, or a text
\* that is no ISO date
WeatherDates == { Date("iso", 10), Date("iso", 8), Date("iso", 25), Date("iso", 26),
                  Date("text", 0) }

WeatherCalls ==
    [fn : {"get_weather_recommendations", "generate_recommendations"},
     start_date : {Date("iso", 10), Date("text", 0)},
     end_date : WeatherDates,
     forecast : {"summary", "error"}]

HTTPException(status) == [t |-> "raise", exc |-> "HTTPException", status_code |-> status]
Responded(status) == [t |-> "ok", status_code |-> status]

\* datetime.fromisoformat: ValueError for a text that is no ISO date
fromisoformat(d) == IF d.enc = "iso" THEN [t |-> "ok", d |-> d.d] ELSE [t |-> "raise"]

\* The body both functions share: date parsing, the range test, then the
\* forecast of each day; a forecast with an error and no alternative raises 500
RecommendationBody(req) ==
    LET start == fromisoformat(req.start_date)
        end == fromisoformat(req.end_date)
    IN  IF start.t = "raise" \/ end.t = "raise" THEN HTTPException(400)
        ELSE LET duration == (end.d - start.d) + 1
             IN  IF duration <= 0 \/ duration > MaxForecastDays THEN HTTPException(400)
                 ELSE IF req.forecast = "error" THEN HTTPException(500)
                 ELSE Responded(200)

\* routes.py lines 41-188: the whole body is inside try/except Exception, and
\* HTTPException is an Exception, so whatever the body raises is raised again as 500
get_weather_recommendations(req) ==
    LET r == RecommendationBody(req)
    IN  IF r.t = "raise" THEN HTTPException(500) ELSE r

\* recommendation_service.py lines 29-183: "except HTTPException: raise" comes
\* before "except Exception"
generate_recommendations(req) ==
    LET r == RecommendationBody(req)
    IN  IF r.t = "raise" /\ r.exc = "HTTPException" THEN r
        ELSE IF r.t = "raise" THEN HTTPException(500) ELSE r

UtilCalls ==
    FindCalls \cup ConflictCalls \cup ParseCalls \cup RepairCalls \cup MultiCalls \cup WeatherCalls

InitUtil ==
    /\ upc = "call" /\ uIn \in UtilCalls /\ uOut = [t |-> "none"]
    /\ merge = "theirs" /\ handler = "service" /\ gemini_model = TRUE
    /\ planContext = [TravelName |-> "Seoul", TimeTables |-> <<>>, TimeTablePlaceBlocks |-> <<>>]
    /\ cpc = "idle"
    /\ ChatIdle /\ NormIdle /\ SchedIdle /\ PriceIdle

UtilRaised == [t |-> "raise"]
UtilValue(v) == [t |-> "ok", v |-> v]

Return(out) ==
    /\ upc' = "done" /\ uOut' = out
    /\ UNCHANGED <<uIn, chatVars, normVars, planContext, schedVars, priceVars>>

\* search_service.py lines 158-202
FindReturn ==
    /\ upc = "call" /\ uIn.fn = "find_non_overlapping_time"
    /\ Return(IF FindRaises(uIn.existing_blocks, uIn.timeTableId)
              THEN UtilRaised
              ELSE UtilValue(find_non_overlapping_time(uIn.existing_blocks, uIn.timeTableId,
                                                       uIn.duration_minutes)))

\* auto_schedule.py lines 47-84
ConflictReturn ==
    /\ upc = "call" /\ uIn.fn = "has_time_conflict"
    /\ LET c == has_time_conflict(uIn.existing_blocks, uIn.slot[1], uIn.slot[2])
       IN  Return(IF c = "raise" THEN UtilRaised ELSE UtilValue(c = "yes"))

\* datetime.time(hour, minute, second) raises ValueError outside its ranges
time(hour, minute, second) ==
    IF hour \in 0..23 /\ minute \in 0..59 /\ second \in 0..59
    THEN UtilValue(<<hour, minute, second>>)
    ELSE UtilRaised

\* search_service.py lines 111-151, on the full values
ParseTimeValue(t) ==
    CASE t.k = "none" -> UtilRaised                     \* line 119: not t
      [] t.k = "int" -> UtilRaised                      \* line 119 for 0, line 151
      [] t.k = "list" ->
            IF Len(t.l) = 0 THEN UtilRaised             \* line 119: not []
            ELSE IF Len(t.l) = 2 THEN time(t.l[1], t.l[2], 0)
            ELSE IF Len(t.l) = 3 THEN time(t.l[1], t.l[2], t.l[3])
            ELSE IF Len(t.l) >= 4 THEN time(t.l[1], t.l[2], t.l[3])
            ELSE UtilRaised
      [] t.k = "str" ->
            IF t.fmt = "hms" THEN UtilValue(<<t.h, t.m, t.sec>>)
            ELSE IF t.fmt = "hm" THEN UtilValue(<<t.h, t.m, 0>>)
            ELSE UtilRaised

ParseReturn ==
    /\ upc = "call" /\ uIn.fn = "_parse_time"
    /\ Return(ParseTimeValue(uIn.t))

\* JSON-repair parsing of one string
RepairReturn ==
    /\ upc = "call" /\ uIn.fn = "robust_json_parse"
    /\ Return(UtilValue(robust_json_parse(uIn.s)))

\* search_service.py lines 354-435
MultiReturn ==
    /\ upc = "call" /\ uIn.fn = "search_multiple_place_blocks"
    /\ LET plan == [TravelName |-> "Seoul", TimeTables |-> <<>>,
                    TimeTablePlaceBlocks |-> uIn.existing_blocks]
           ns == [i \in 1..Len(uIn.queries) |->
                     IF uIn.queries[i] \in uIn.fails THEN 0 ELSE uIn.n]
           r == search_multiple_place_blocks(uIn.queries, uIn.timeTableId, plan,
                                             uIn.duration_minutes, ns)
       IN  Return(IF r.t = "raise" THEN UtilRaised ELSE UtilValue(r.blocks))

\* A request to POST /recommendations, answered by the routed endpoint
WeatherReturn ==
    /\ upc = "call" /\ uIn.fn = "get_weather_recommendations"
    /\ Return(get_weather_recommendations(uIn))

\* The same request given to the service function
RecommendReturn ==
    /\ upc = "call" /\ uIn.fn = "generate_recommendations"
    /\ Return(generate_recommendations(uIn))

NextUtil ==
    \/ FindReturn \/ ConflictReturn \/ ParseReturn \/ RepairReturn \/ MultiReturn
    \/ WeatherReturn \/ RecommendReturn

SpecUtil == InitUtil /\ [][NextUtil]_vars

-----------------------------------------------------------------------------
(* Properties of the utility functions *)

FindDone == upc = "done" /\ uIn.fn = "find_non_overlapping_time" /\ uOut.t = "ok"

\* The blocks of the timetable asked for
FindUsed ==
    {i \in 1..Len(uIn.existing_blocks) : uIn.existing_blocks[i].timeTableId = uIn.timeTableId}

\* A start at or after 09:00 whose interval meets no block and ends by 20:00
FreeStart(c) ==
    /\ DAY_START <= c /\ c + uIn.duration_minutes <= DAY_END
    /\ \A i \in FindUsed :
          ~(/\ c < uIn.existing_blocks[i].blockEndTime.t
            /\ uIn.existing_blocks[i].blockStartTime.t < c + uIn.duration_minutes)

FreeStarts == {c \in DAY_START..DAY_END : FreeStart(c)}

\* C12: find_non_overlapping_time returns the earliest start from 09:00 on
\* whose interval of the requested duration meets no block of the timetable
\* and ends by 20:00, and the fallback (19:00, 20:30) only when there is none.
C12_EarliestFreeInterval ==
    FindDone =>
        IF FreeStarts # {}
        THEN \E c \in FreeStarts :
                /\ \A c2 \in FreeStarts : c <= c2
                /\ uOut.v = <<c, c + uIn.duration_minutes>>
        ELSE uOut.v = <<FallbackStart, FallbackEnd>>

ConflictDone == upc = "done" /\ uIn.fn = "has_time_conflict" /\ uOut.t = "ok"

Touching == ExistingBlock(7, Date("iso", 10), Time("hms", 660), Time("hms", 720), "x")
Straddling == ExistingBlock(7, Date("iso", 10), Time("hms", 630), Time("hms", 720), "x")

\* C13: has_time_conflict answers true iff some block with both times has
\* s1 < e2 and s2 < e1 against the slot: 11:00-12:00 does not conflict with
\* 09:00-11:00, 10:30-12:00 does.
C13_HalfOpenOverlap ==
    ConflictDone =>
        /\ uOut.v <=>
              \E i \in 1..Len(uIn.existing_blocks) :
                  LET b == uIn.existing_blocks[i]
                  IN  /\ b.blockStartTime.enc # "empty" /\ b.blockEndTime.enc # "empty"
                      /\ uIn.slot[1] < b.blockEndTime.t
                      /\ b.blockStartTime.t < uIn.slot[2]
        /\ (uIn.slot[1] = MorningStart /\ uIn.existing_blocks = <<Touching>>) => ~uOut.v
        /\ (uIn.slot[1] = MorningStart /\ uIn.existing_blocks = <<Straddling>>) => uOut.v

\* The morning slot against the block that starts where it ends
C13_Witness ==
    /\ ConflictDone /\ uIn.slot = <<MorningStart, MorningEnd>>
    /\ uIn.existing_blocks = <<Touching>> /\ uOut.v = FALSE

ParseDone == upc = "done" /\ uIn.fn = "_parse_time"

\* The three encodings of a wall-clock time
IsEncoding(t) ==
    \/ t.k = "str" /\ t.fmt \in {"hms", "hm"}
    \/ /\ t.k = "list" /\ Len(t.l) \in 2..4
       /\ t.l[1] \in 0..23 /\ t.l[2] \in 0..59
       /\ Len(t.l) >= 3 => t.l[3] \in 0..59

WallClock(t) ==
    IF t.k = "str" THEN <<t.h, t.m, t.sec>>
    ELSE <<t.l[1], t.l[2], IF Len(t.l) >= 3 THEN t.l[3] ELSE 0>>

\* C14: _parse_time returns the wall-clock time of "HH:MM:SS", "HH:MM" and
\* lists of 2 to 4 elements, the same value for encodings of the same time,
\* and raises on every other input.
C14_ExactlyThreeEncodings ==
    ParseDone =>
        IF IsEncoding(uIn.t) THEN uOut = UtilValue(WallClock(uIn.t)) ELSE uOut = UtilRaised

RepairDone == upc = "done" /\ uIn.fn = "robust_json_parse"

\* The string the single retry parses
RetryString(s) ==
    IF LooksLikeObject(StripQuotes(s)) THEN StripQuotes(s) ELSE WrapBraces(StripQuotes(s))

-----------------------------------------------------------------------------
(* Properties of _normalize_actions, entry by entry *)

\* An entry that is an array stands for its first element
Unwrapped(e) == IF e.k = "list" THEN (IF e.l # <<>> THEN e.l[1] ELSE Null) ELSE e

\* The entries of the argument that are mappings, in input order
KeptEntries ==
    SelectSeq([i \in 1..Len(EntriesOf(nArg)) |-> Unwrapped(EntriesOf(nArg)[i])],
              LAMBDA e : e.k = "map")

NormDone == npc = "done" /\ Len(normalized) = Len(KeptEntries)

PrefixedKeys(d) == DOMAIN d \cap {"targetId", "targetDate"}

\* C16: an entry without target but with target-prefixed fields gets a target
\* holding exactly those fields, and loses them at the top level, with or
\* without a targetName.
C16_PrefixedFieldsRecovered ==
    NormDone =>
        \A i \in 1..Len(KeptEntries) :
            LET d == KeptEntries[i].m
            IN  ("target" \notin DOMAIN d /\ PrefixedKeys(d) # {}) =>
                    /\ normalized[i].m["target"] = Map([key \in PrefixedKeys(d) |-> d[key]])
                    /\ PrefixedKeys(normalized[i].m) = {}

\* What the first element of a list target stands for
FromFirst(first) ==
    CASE first.k = "map" -> first
      [] first.k = "str" ->
            IF robust_json_parse(first.s).k = "map"
            THEN robust_json_parse(first.s)
            ELSE Map([raw_string_data |-> robust_json_parse(first.s)])
      [] OTHER -> Map(EmptyDict)

\* C17: a list target is replaced by its first element when that is a
\* mapping, by the repaired mapping or the raw_string_data wrapper when it is
\* a string, and by {} when the list is empty or starts with anything else.
C17_ListTargetFirstElement ==
    NormDone =>
        \A i \in 1..Len(KeptEntries) :
            LET t == Get(KeptEntries[i].m, "target")
            IN  t.k = "list" =>
                    normalized[i].m["target"] =
                        IF t.l = <<>> THEN Map(EmptyDict) ELSE FromFirst(t.l[1])

-----------------------------------------------------------------------------
(* The arguments of the tool invocations *)

RECURSIVE BlocksBefore(_)
\* How many blocks the calls before call i returned
BlocksBefore(i) == IF i <= 1 THEN 0 ELSE BlocksBefore(i - 1) + log.calls[i - 1].blocks

\* The positions in the produced blocks of the blocks call i returned
BlocksOfCall(i) == (BlocksBefore(i) + 1)..(BlocksBefore(i) + log.calls[i].blocks)

\* C19: every recognized tool invocation calls the search function with the
\* planContext of the request, whatever planContext the model put in the
\* arguments, and with an integer timeTableId of the value the model gave,
\* also when the model gave it as a float; every block the call returned,
\* and the action made of it, carries that integer timeTableId.
C19_ForcedPlanAndIntegerId ==
    /\ Len(actions) = Len(produced)
    /\ \A i \in 1..Len(log.calls) :
          LET c == log.calls[i]
              p == parts[c.part]
          IN  /\ p.fn \in {Single, Multi}
              /\ c.planContext = planContext
              /\ c.timeTableId = IntId(p.timeTableId.v)
              /\ \A k \in BlocksOfCall(i) :
                    /\ k <= Len(produced)
                    /\ produced[k].timeTableId = c.timeTableId
                    /\ actions[k].target = produced[k]
    /\ (cpc = "done" /\ reply.t = "reply" /\ reply.hasAction /\ log.calls # <<>>) =>
          reply.actions = actions

\* Two calls came back with blocks: one whose model arguments held a made-up
\* planContext and a float timeTableId, one with a float id and no planContext
C19_Witness ==
    /\ cpc = "done" /\ reply.t = "reply" /\ reply.hasAction
    /\ planContext # StalePlan
    /\ \E i, j \in 1..Len(log.calls) :
          /\ parts[log.calls[i].part].planContext = StalePlan
          /\ parts[log.calls[i].part].timeTableId.float
          /\ log.calls[i].blocks = MaxQueries
          /\ parts[log.calls[j].part].planContext = NotEchoed
          /\ parts[log.calls[j].part].timeTableId = TableId(TRUE, 8)
          /\ log.calls[j].blocks = 1

-----------------------------------------------------------------------------
(* The placeholder identifiers of the auto scheduler *)

\* The zero-based indices of the days the loop has finished
DaysDone == 0..(day - 1)

\* C20: every block of the day with zero-based index d has blockId -1, the
\* date start_date + d and the timeTableId -(d + 1); the TimeTable action at
\* position d of timeTables has that date; so two blocks have the same
\* placeholder exactly when they have the same date, and each placeholder
\* names one emitted TimeTable, the one of the block's date.
C20_PlaceholderPerDay ==
    /\ Len(time_tables) = day
    /\ \A d \in DaysDone :
          /\ time_tables[d + 1].action = "create"
          /\ time_tables[d + 1].targetName = "timeTable"
          /\ time_tables[d + 1].target.date = Date("iso", sIn.start_date + d)
    /\ \A i \in 1..Len(place_blocks_actions) :
          LET b == place_blocks_actions[i]
          IN  /\ b.blockId = -1
              /\ \E d \in DaysDone :
                    /\ b.date = Date("iso", sIn.start_date + d)
                    /\ b.timeTableId = IntId(-(d + 1))
                    /\ time_tables[d + 1].target.date = b.date
              /\ \A k \in 1..Len(time_tables) :
                    time_tables[k].target.date = b.date <=> k = -b.timeTableId.v
    /\ \A i, j \in 1..Len(place_blocks_actions) :
          place_blocks_actions[i].timeTableId = place_blocks_actions[j].timeTableId
              <=> place_blocks_actions[i].date = place_blocks_actions[j].date
    /\ \A i, j \in 1..Len(place_blocks_actions) :
          i <= j => place_blocks_actions[i].timeTableId.v >= place_blocks_actions[j].timeTableId.v

\* A trip of several days returned with blocks on its first and on its last day
C20_Witness ==
    /\ spc = "done" /\ sIn.days >= 2
    /\ \E i, j \in 1..Len(place_blocks_actions) :
          /\ place_blocks_actions[i].timeTableId = IntId(-1)
          /\ place_blocks_actions[j].timeTableId = IntId(-sIn.days)
          /\ place_blocks_actions[j].date = Date("iso", sIn.start_date + sIn.days - 1)

-----------------------------------------------------------------------------
(* The PlanContext as input *)

\* Requests of both kinds: chat requests and auto-schedule requests
InitPlan == InitChat \/ InitSched

NextPlan == NextChat \/ NextSched

SpecPlan == InitPlan /\ [][NextPlan]_vars

-----------------------------------------------------------------------------
(* The price service: app/services/price_service.py *)

DEFAULT_FOOD_PRICE == 15000
DefaultAccomMin == 50000
DefaultAccomMax == 100000

MaxRequests == 2     \* most price requests in a row

\* A cache is a set of <<key, data>> pairs with one pair for a key
NoData == [t |-> "none"]
Cached(cache, key) ==
    IF \E e \in cache : e[1] = key THEN (CHOOSE e \in cache : e[1] = key)[2] ELSE NoData
Store(cache, key, data) == {e \in cache : e[1] # key} \cup {<<key, data>>}

_food_cache_key(block) ==
    <<"food", block.placeName, block.placeAddress, block.placeRating>>
_accom_cache_key(block, headcount) ==
    <<"accom", block.placeName, block.placeAddress, block.placeRating, headcount>>
_summary_cache_key(block) ==
    <<"summary", block.placeName, block.placeAddress, block.placeCategory, block.placeTheme>>

PlaceBlockVO(name, category, rating, timeTableId) ==
    [placeName |-> name, placeAddress |-> "1 Main St", placeCategory |-> category,
     placeRating |-> rating, placeTheme |-> "", timeTableId |-> timeTableId]

\* The place lists of the requests: a restaurant, a hotel and a sight on
\* timetable 1, and a restaurant on a timetable the request does not list
PlaceLists ==
    { <<>>,
      <<PlaceBlockVO("bistro", 2, 4, 1)>>,
      <<PlaceBlockVO("bistro", 2, 4, 1), PlaceBlockVO("inn", 1, 3, 2)>>,
      <<PlaceBlockVO("palace", 0, 5, 2), PlaceBlockVO("bistro", 2, 4, 9)>> }

TimetableLists ==
    { <<[timetableId |-> 2, date |-> 11], [timetableId |-> 1, date |-> 10]>> }

PriceRequests ==
    [headcount : {1, 2}, placeBlocks : PlaceLists, timeTables : TimetableLists]

\* What the enrichment collaborator does with one batch: "down" is a failed
\* call or an answer that is no JSON object (lines 353-356, 401-407), the
\* others answer every refId, with one estimate or another
Oracles == {"down", "cheap", "dear"}

AiFood(ai) ==
    IF ai = "down" THEN NoData
    ELSE [estimatedPrice |-> IF ai = "cheap" THEN 10000 ELSE 20000,
          menuExamples |-> <<"set menu">>]

AiAccom(ai) ==
    IF ai = "down" THEN NoData
    ELSE [recommendedRoomType |-> "family",
          roomTypes |-> <<[type |-> "family",
                           priceRange |-> IF ai = "cheap" THEN <<60000, 90000>>
                                          ELSE <<90000, 140000>>]>>]

AiSummary(ai) ==
    IF ai = "down" THEN NoData
    ELSE [summary |-> IF ai = "cheap" THEN "a quiet place" ELSE "a busy place"]

\* lines 54-131: the prediction of block i, from the cache or from the batch
FoodPrediction(req, ai, cache, i) ==
    LET hit == Cached(cache, _food_cache_key(req.placeBlocks[i]))
    IN  IF hit # NoData THEN hit ELSE AiFood(ai)

AccomPrediction(req, ai, cache, i) ==
    LET hit == Cached(cache, _accom_cache_key(req.placeBlocks[i], req.headcount))
    IN  IF hit # NoData THEN hit ELSE AiAccom(ai)

SummaryPrediction(req, ai, cache, i) ==
    LET hit == Cached(cache, _summary_cache_key(req.placeBlocks[i]))
    IN  IF hit # NoData THEN hit ELSE AiSummary(ai)

RECURSIVE StoreAll(_, _, _)
\* lines 107-131: the answers of the batch go into the cache, key by key
StoreAll(cache, keys, data) ==
    IF keys = <<>> \/ data = NoData THEN cache
    ELSE StoreAll(Store(cache, Head(keys), data), Tail(keys), data)

\* lines 72, 86: the blocks of a category, in request order
CategoryBlocks(req, category) ==
    SelectSeq(req.placeBlocks, LAMBDA b : b.placeCategory = category)

\* lines 58-100: the keys the cache does not hold
MissedKeys(cache, keys) == SelectSeq(keys, LAMBDA k : Cached(cache, k) = NoData)

\* lines 410-417
_resolve_food_price(pred) ==
    IF pred = NoData THEN DEFAULT_FOOD_PRICE
    ELSE IF pred.estimatedPrice > 0 THEN pred.estimatedPrice ELSE DEFAULT_FOOD_PRICE

\* lines 420-444
_resolve_accommodation_price(pred) ==
    IF pred = NoData
    THEN [roomType |-> "basic", min |-> DefaultAccomMin, max |-> DefaultAccomMax]
    ELSE LET room_types == pred.roomTypes
             match == {k \in 1..Len(room_types) :
                          room_types[k].type = pred.recommendedRoomType}
             selected == IF match # {}
                         THEN room_types[CHOOSE k \in match : \A j \in match : k <= j]
                         ELSE room_types[1]
         IN  [roomType |-> selected.type, min |-> selected.priceRange[1],
              max |-> selected.priceRange[2]]

\* lines 135-136: the date of a timetable id (0 for an id that is not
\* listed) and the dates in ascending order
DateOfTimetable(req, id) ==
    LET S == {k \in 1..Len(req.timeTables) : req.timeTables[k].timetableId = id}
    IN  IF S = {} THEN 0
        ELSE req.timeTables[CHOOSE k \in S : \A j \in S : j <= k].date

sorted_dates(req) ==
    SelectSeq([d \in 1..31 |-> d],
              LAMBDA d : \E k \in 1..Len(req.timeTables) :
                            DateOfTimetable(req, req.timeTables[k].timetableId) = d)

\* lines 140-148: the positions of the blocks of a date, in request order
grouped_blocks(req, date_str) ==
    SelectSeq([i \in 1..Len(req.placeBlocks) |-> i],
              LAMBDA i : DateOfTimetable(req, req.placeBlocks[i].timeTableId) = date_str)

RECURSIVE SumOf(_)
SumOf(seq) == IF seq = <<>> THEN 0 ELSE Head(seq) + SumOf(Tail(seq))

\* lines 172-174
Description(req, ai, sc, i) ==
    LET summary_data == SummaryPrediction(req, ai, sc, i)
    IN  IF summary_data = NoData THEN "" ELSE summary_data.summary

\* lines 179-191
FoodCostDetail(req, ai, fc, sc, i) ==
    LET pred == FoodPrediction(req, ai, fc, i)
        p_person == _resolve_food_price(pred)
    IN  [placeName |-> req.placeBlocks[i].placeName, pricePerPerson |-> p_person,
         totalPrice |-> p_person * req.headcount,
         menuExamples |-> IF pred = NoData THEN <<>> ELSE pred.menuExamples,
         placeDescription |-> Description(req, ai, sc, i)]

\* lines 194-207
AccommodationCostDetail(req, ai, ac, sc, i) ==
    LET r == _resolve_accommodation_price(AccomPrediction(req, ai, ac, i))
    IN  [placeName |-> req.placeBlocks[i].placeName, roomType |-> r.roomType,
         priceRange |-> [min |-> r.min, max |-> r.max],
         pricePerPerson |-> [min |-> r.min \div req.headcount,
                             max |-> r.max \div req.headcount],
         placeDescription |-> Description(req, ai, sc, i)]

\* lines 161-221: the summary of the n-th date
DailyCostSummary(req, ai, fc, ac, sc, n) ==
    LET date_str == sorted_dates(req)[n]
        blocks == grouped_blocks(req, date_str)
        d_foods == [k \in 1..Len(SelectSeq(blocks,
                                    LAMBDA i : req.placeBlocks[i].placeCategory = 2)) |->
                       FoodCostDetail(req, ai, fc, sc,
                           SelectSeq(blocks,
                                     LAMBDA i : req.placeBlocks[i].placeCategory = 2)[k])]
        d_accoms == [k \in 1..Len(SelectSeq(blocks,
                                     LAMBDA i : req.placeBlocks[i].placeCategory = 1)) |->
                        AccommodationCostDetail(req, ai, ac, sc,
                            SelectSeq(blocks,
                                      LAMBDA i : req.placeBlocks[i].placeCategory = 1)[k])]
        d_food_total == SumOf([k \in 1..Len(d_foods) |-> d_foods[k].totalPrice])
        d_accom_min == SumOf([k \in 1..Len(d_accoms) |-> d_accoms[k].priceRange.min])
        d_accom_max == SumOf([k \in 1..Len(d_accoms) |-> d_accoms[k].priceRange.max])
    IN  [date |-> date_str, dayNumber |-> n,
         foodDetails |-> d_foods, accommodationDetails |-> d_accoms,
         dailyTotalFood |-> d_food_total,
         dailyTotalAccommodationMin |-> d_accom_min,
         dailyTotalAccommodationMax |-> d_accom_max,
         dailyTotalMin |-> d_food_total + d_accom_min,
         dailyTotalMax |-> d_food_total + d_accom_max]

\* lines 159, 171-176, 245, 281-293: what the rendering shows of the places,
\* date by date: each place with the last non-empty description of its name
place_desc_map(req, ai, sc) ==
    LET shown == {i \in 1..Len(req.placeBlocks) :
                     /\ DateOfTimetable(req, req.placeBlocks[i].timeTableId) # 0
                     /\ Description(req, ai, sc, i) # ""}
        later(i, j) ==
            LET di == DateOfTimetable(req, req.placeBlocks[i].timeTableId)
                dj == DateOfTimetable(req, req.placeBlocks[j].timeTableId)
            IN  di > dj \/ (di = dj /\ i >= j)
    IN  { <<req.placeBlocks[i].placeName, Description(req, ai, sc, i)>> :
             i \in {i \in shown :
                       \A j \in shown :
                           req.placeBlocks[j].placeName = req.placeBlocks[i].placeName
                               => later(i, j)} }

\* lines 133-254: the response for a request, computed over given caches
PricePredictionResponse(req, ai, fc, ac, sc) ==
    LET daily_summaries == [n \in 1..Len(sorted_dates(req)) |->
                               DailyCostSummary(req, ai, fc, ac, sc, n)]
        days == 1..Len(daily_summaries)
        grand_food_total == SumOf([k \in days |-> daily_summaries[k].dailyTotalFood])
        grand_accom_min ==
            SumOf([k \in days |-> daily_summaries[k].dailyTotalAccommodationMin])
        grand_accom_max ==
            SumOf([k \in days |-> daily_summaries[k].dailyTotalAccommodationMax])
    IN  [t |-> "response",
         dailyCosts |-> daily_summaries,
         tripSummary |->
             [totalFoodCost |-> grand_food_total,
              totalAccommodationMin |-> grand_accom_min,
              totalAccommodationMax |-> grand_accom_max,
              perPersonCost |->
                  [min |-> (grand_food_total + grand_accom_min) \div req.headcount,
                   max |-> (grand_food_total + grand_accom_max) \div req.headcount],
              groupTotalCost |->
                  [min |-> grand_food_total + grand_accom_min,
                   max |-> grand_food_total + grand_accom_max]],
         renderHtml |-> place_desc_map(req, ai, sc)]

InitPrice ==
    /\ PriceIdle
    /\ planContext = [TravelName |-> "Seoul", TimeTables |-> <<>>, TimeTablePlaceBlocks |-> <<>>]
    /\ merge = "theirs" /\ handler = "service" /\ gemini_model = TRUE
    /\ cpc = "idle" /\ upc = "idle" /\ uIn = [fn |-> "none"] /\ uOut = [t |-> "none"]
    /\ ChatIdle /\ NormIdle /\ SchedIdle

\* lines 38-254: one request
predict_price_service ==
    /\ served < MaxRequests
    /\ \E req \in PriceRequests, ai \in Oracles :
          /\ price_call' = [t |-> "call", request |-> req, ai |-> ai]
          /\ price_response' =
                 PricePredictionResponse(req, ai, food_cache, accom_cache, summary_cache)
          /\ food_cache' =
                 StoreAll(food_cache,
                          MissedKeys(food_cache,
                                     [k \in 1..Len(CategoryBlocks(req, 2)) |->
                                         _food_cache_key(CategoryBlocks(req, 2)[k])]),
                          AiFood(ai))
          /\ accom_cache' =
                 StoreAll(accom_cache,
                          MissedKeys(accom_cache,
                                     [k \in 1..Len(CategoryBlocks(req, 1)) |->
                                         _accom_cache_key(CategoryBlocks(req, 1)[k],
                                                          req.headcount)]),
                          AiAccom(ai))
          /\ summary_cache' =
                 StoreAll(summary_cache,
                          MissedKeys(summary_cache,
                                     [k \in 1..Len(req.placeBlocks) |->
                                         _summary_cache_key(req.placeBlocks[k])]),
                          AiSummary(ai))
    /\ served' = served + 1
    /\ UNCHANGED <<chatVars, normVars, planContext, schedVars, utilVars>>

NextPrice == predict_price_service

SpecPrice == InitPrice /\ [][NextPrice]_vars

\* C22: the response of every price request is the response the same
\* request gets, with the same answer of the enrichment collaborator, when
\* the three caches are empty.
C22_CachesUnobservable ==
    price_call.t = "call" =>
        price_response = PricePredictionResponse(price_call.request, price_call.ai,
                                                 EmptyCache, EmptyCache, EmptyCache)

-----------------------------------------------------------------------------
(* The interval find_non_overlapping_time returns *)

\* C23: the interval find_non_overlapping_time returns overlaps no block of
\* the timetable asked for, the fallback interval included.
C23_ReturnedIntervalIsFree ==
    FindDone =>
        \A i \in FindUsed :
            ~Overlaps(uOut.v[1], uOut.v[2],
                      uIn.existing_blocks[i].blockStartTime.t,
                      uIn.existing_blocks[i].blockEndTime.t)

-----------------------------------------------------------------------------
(* The blocks search_multiple_place_blocks returns *)

MultiDone == upc = "done" /\ uIn.fn = "search_multiple_place_blocks" /\ uOut.t = "ok"

\* C24: the blocks search_multiple_place_blocks returns are back to back,
\* each of the requested duration; none ends after 20:00; none overlaps
\* another returned block or an existing block of the same timetable.
C24_SequentialPlacement ==
    MultiDone =>
        LET blocks == uOut.v
        IN  /\ \A k \in 1..Len(blocks) :
                  /\ blocks[k].blockEndTime.t
                        = blocks[k].blockStartTime.t + uIn.duration_minutes
                  /\ blocks[k].blockEndTime.t <= DAY_END
                  /\ k > 1 => blocks[k].blockStartTime.t = blocks[k - 1].blockEndTime.t
            /\ \A k, j \in 1..Len(blocks) :
                  k # j => ~Overlaps(blocks[k].blockStartTime.t, blocks[k].blockEndTime.t,
                                     blocks[j].blockStartTime.t, blocks[j].blockEndTime.t)
            /\ \A k \in 1..Len(blocks), i \in FindUsed :
                  ~Overlaps(blocks[k].blockStartTime.t, blocks[k].blockEndTime.t,
                            uIn.existing_blocks[i].blockStartTime.t,
                            uIn.existing_blocks[i].blockEndTime.t)

-----------------------------------------------------------------------------
(* Which result of a query a block names *)

\* Calls of the scheduler and direct calls of the utilities
InitIndex == InitSched \/ InitUtil

NextIndex == NextSched \/ NextUtil

SpecIndex == InitIndex /\ [][NextIndex]_vars

\* The morning blocks of the trip
MorningBlocks ==
    {i \in 1..Len(place_blocks_actions) :
        place_blocks_actions[i].blockStartTime.t = MorningStart}

\* The zero-based day of an emitted block
DayOf(i) == place_blocks_actions[i].date.d - sIn.start_date

\* The result a request for index k gets from a collaborator with n results
Clamped(k, n) == IF k >= n THEN n - 1 ELSE k

\* The returned blocks before block j that name the same query
Repetition(blocks, j) ==
    Cardinality({k \in 1..(j - 1) : blocks[k].placeName = blocks[j].placeName})

-----------------------------------------------------------------------------
(* The category of the scheduler's blocks *)

\* C26: every block the scheduler emits has the category of its slot:
\* sightseeing (0) in the morning, dining (2) at lunch and dinner, lodging
\* (1) at night, whatever the name of the destination.
C26_SlotCategory ==
    spc = "done" =>
        \A i \in 1..Len(place_blocks_actions) :
            LET b == place_blocks_actions[i]
            IN  /\ b.blockStartTime.t = MorningStart => b.placeCategoryId = 0
                /\ b.blockStartTime.t \in {LunchStart, DinnerStart} => b.placeCategoryId = 2
                /\ b.blockStartTime.t = AccommodationStart => b.placeCategoryId = 1


\* The request of a weather call is rejected by validation: a date that is no
\* ISO date, or a range shorter than 1 day or longer than 16 days
WeatherRejected ==
    \/ uIn.start_date.enc # "iso" \/ uIn.end_date.enc # "iso"
    \/ (uIn.end_date.d - uIn.start_date.d) + 1 < 1
    \/ (uIn.end_date.d - uIn.start_date.d) + 1 > 16

\* C27: the weather recommendation endpoint answers a request whose range is
\* shorter than 1 day or longer than 16 days, or whose dates are not ISO
\* dates, with status 400, and the surrounding handler does not turn it into 500
C27_ValidationGives400 ==
    (upc = "done" /\ uIn.fn = "get_weather_recommendations" /\ WeatherRejected)
        => (uOut.t = "raise" /\ uOut.status_code = 400)

\* The existing blocks whose times are list-encoded or "HH:MM"
OtherEncoded ==
    {i \in 1..Len(planContext.TimeTablePlaceBlocks) :
        LET b == planContext.TimeTablePlaceBlocks[i]
        IN  /\ b.blockStartTime.enc \in {"list", "hm"}
            /\ b.blockEndTime.enc \in {"list", "hm"}}

\* C28: the scheduler treats an existing block whose times are list-encoded or
\* "HH:MM" as it treats the same block encoded "HH:MM:SS": no exception
\* leaves create_auto_schedule because of the encoding
C28_EncodingsUniform ==
    OtherEncoded # {} => spc # "raised"

\* C29: the not-found reply is returned only if a place search found nothing:
\* when the collaborator had a place for every query of the last search, the
\* search yields a block and the reply is not the apology, whatever blocks
\* the timetable holds
C29_ApologyOnlyWhenNothingFound ==
    (handler = "service" /\ cpc = "done" /\ reply = NotFoundReply)
        => (log.found # <<>> /\ log.found[Len(log.found)] = 0)

\* C30: on the free-text path every well-formed action the model supplied
\* reaches the caller: when the processed output validates and holds at least
\* one normalized action, the reply holds exactly those actions in order,
\* whatever hasAction the model reported
C30_ValidActionsReturned ==
    (/\ NormalizingRun
     /\ ValidResponse(Processed(ParsedDoc))
     /\ normalized # <<>>)
    => /\ reply.t = "reply"
       /\ reply.actions = ToActions(normalized)

====
